---- MODULE Spec2Model ----
(***************************************************************************)
(* pyAFQ streamline segmentation (AFQ/segmentation.py): the Segment class  *)
(* (create_prob, resample, split_sls, segment_sls, segment) and the        *)
(* helpers it is built from.                                               *)
(*                                                                         *)
(* Numbers.  Coordinates are rationals kept as integer numerators over a   *)
(* common denominator: a streamline is [den |-> d, pts |-> <<p1,...>>],    *)
(* each p a triple of integers, standing for the points p/d.  Squared      *)
(* distances, sampled probabilities and tolerances are compared after      *)
(* multiplying through by the (positive) denominators, so every            *)
(* comparison of the source is decided exactly.                            *)
(***************************************************************************)
EXTENDS Integers, Sequences, FiniteSets, TLC

\* ------------------------------------------------------------------ bounds
\* Voxels of the modelled volumes are <<x, 0, 0>> with x \in 0..GridMax.
GridMax == 2
\* A tractography streamline has 2..MaxPts points.
MaxPts == 3
\* A tractogram has 1..MaxSl streamlines.
MaxSl == 2
\* A bundle_dict has 1..MaxBundles bundles.
MaxBundles == 2
\* Probability maps take the values 0..MaxProb.
MaxProb == 1
\* prob_threshold ranges over 0, 3/8, ..., MaxThr * 3/8.
MaxThr == 1
\* A ROI has 1..MaxRoiVox voxels.
MaxRoiVox == 2
\* The squared edge lengths of a voxel are <<1, 1, 1..MaxVoxSq>>.
MaxVoxSq == 1
\* The mapping displaces volumes by 0..MaxShift voxels.
MaxShift == 0
\* A bundle has 0..MaxInc inclusion ROIs and 0..MaxExc exclusion ROIs.
MaxInc == 2
MaxExc == 1

\* clean_fiber_group is given 0..MaxCleanSl streamlines,
MaxCleanSl == 5
\* min_sl in 1..MaxMinSl,
MaxMinSl == 4
\* clean_rounds in 0..MaxCleanRounds,
MaxCleanRounds == 2
\* and clean_threshold in 7/4, 9/4, ..., (5 + 2 * MaxCleanThr)/4.
MaxCleanThr == 2

\* The values of resample_np given to setup: 0 (no resampling) and 3.
ResampleNps == {0, 3}

\* --------------------------------------------------------- program constants
\* segment_sls approximates each streamline as a 100 point curve.
NPointsSeg == 100

\* ------------------------------------------------------------------ helpers
None == "None"

Abs(a) == IF a < 0 THEN -a ELSE a

\* The greatest common divisor, by Euclid's algorithm (each remainder is
\* taken from a set of one element so that it is computed once).
RECURSIVE Gcd(_, _)
Gcd(a, b) ==
  IF b = 0 THEN Abs(a)
  ELSE CHOOSE g \in {Gcd(y, x % y) : x \in {a}, y \in {b}} : TRUE

SetMin(S) == CHOOSE a \in S : \A b \in S : a <= b

SetMax(S) == CHOOSE a \in S : \A b \in S : a >= b

\* f[lo] + ... + f[hi], summed by halves.
RECURSIVE SumFn(_, _, _)
SumFn(f, lo, hi) ==
  IF lo > hi THEN 0
  ELSE IF lo = hi THEN f[lo]
  ELSE LET mid == (lo + hi) \div 2
       IN SumFn(f, lo, mid) + SumFn(f, mid + 1, hi)

\* The sequence f as an explicit tuple, each entry computed once.
Tuple(f) == f \o << >>

\* s[::-1]
Reverse(s) == [i \in 1..Len(s) |-> s[Len(s) + 1 - i]]

\* The elements of a finite set of integers, in increasing order
\* (np.where of a boolean vector).
where(S) ==
  Tuple([k \in 1..Cardinality(S) |->
           CHOOSE v \in S : Cardinality({u \in S : u < v}) = k - 1])

\* ------------------------------------------------------------ streamlines
\* The greatest common divisor of a denominator and every coordinate of a
\* point list.
PtsGcd(den, pts) ==
  SetMax({g \in 1..den :
            /\ den % g = 0
            /\ \A i \in 1..Len(pts) : \A a \in 1..3 : pts[i][a] % g = 0})

\* The same points over the least denominator.
Normalize(sl) ==
  LET g == PtsGcd(sl.den, sl.pts)
  IN [den |-> sl.den \div g,
      pts |-> Tuple([i \in 1..Len(sl.pts) |->
                 <<sl.pts[i][1] \div g, sl.pts[i][2] \div g,
                   sl.pts[i][3] \div g>>])]

\* Length of segment i (from point i to point i+1), in units of 1/den.  The
\* modelled streamlines are axis-aligned polylines: each segment changes
\* one coordinate, so its Euclidean length is the sum of the absolute
\* coordinate differences.  (A streamline of one segment is resampled in
\* proportion along that segment, whatever unit measures its length.)
SegLen(pts, i) ==
  Abs(pts[i + 1][1] - pts[i][1]) + Abs(pts[i + 1][2] - pts[i][2])
    + Abs(pts[i + 1][3] - pts[i][3])

\* arclengths[k] of dipy's set_number_of_points: cumulative length up to
\* point k (1-based), in units of 1/den.
RECURSIVE CumLen(_, _)
CumLen(pts, k) == IF k <= 1 THEN 0 ELSE CumLen(pts, k - 1) + SegLen(pts, k - 1)

\* dipy.tracking.streamlinespeed.set_number_of_points for one streamline:
\* n points, uniformly spaced along the arc length, the first and the last
\* being the streamline's own, the others linearly interpolated within the
\* segment they fall in.  The result is over the denominator den*(n-1).
ResampleOne(sl, n) ==
  LET pts == sl.pts
      N == Len(pts)
      arclengths == Tuple([k \in 1..N |-> CumLen(pts, k)])
      L == arclengths[N]
      \* the point at arc length S / (den*(n-1))
      At(S) ==
        LET k == SetMin({kk \in 1..N : arclengths[kk] * (n - 1) >= S})
        IN IF arclengths[k] * (n - 1) = S
           THEN <<pts[k][1] * (n - 1), pts[k][2] * (n - 1),
                  pts[k][3] * (n - 1)>>
           ELSE LET len == arclengths[k] - arclengths[k - 1]
                    off == S - arclengths[k - 1] * (n - 1)
                    c(a) == pts[k - 1][a] * (n - 1)
                              + (off * (pts[k][a] - pts[k - 1][a])) \div len
                IN <<c(1), c(2), c(3)>>
  IN [den |-> sl.den * (n - 1),
      pts |-> Tuple([j \in 1..n |->
                 IF j = n
                 THEN <<pts[N][1] * (n - 1), pts[N][2] * (n - 1),
                        pts[N][3] * (n - 1)>>
                 ELSE At((j - 1) * L)])]

\* Streamlines come in a container: a Python list of 2-D arrays, a dipy
\* Streamlines (nibabel's ArraySequence), or the ndarray of three
\* dimensions that np.array makes of streamlines of as many points each.
\* In all of them rows holds the streamlines.
List(rows) == [kind |-> "list", rows |-> rows]

Streamlines(rows) == [kind |-> "Streamlines", rows |-> rows]

Array(rows) == [kind |-> "ndarray", rows |-> rows]

\* The exception of dps.set_number_of_points(streamlines, n_points), "" if
\* none: an ndarray is taken for ONE streamline, of shape (N, 3), and the
\* array of three dimensions is rejected with ValueError (buffer has wrong
\* number of dimensions); a list and a Streamlines are resampled.
set_number_of_points_error(streamlines) ==
  IF streamlines.kind = "ndarray" THEN "ValueError" ELSE ""

\* dps.set_number_of_points(streamlines, n_points): every streamline of a
\* list resampled, every row over its least denominator.
set_number_of_points(streamlines, n_points) ==
  IF set_number_of_points_error(streamlines) # ""
  THEN [error |-> set_number_of_points_error(streamlines)]
  ELSE [error |-> "",
        rows |-> Tuple([i \in 1..Len(streamlines.rows) |->
                   Normalize(ResampleOne(streamlines.rows[i], n_points))])]

\* _resample_bundle(streamlines, n_points): the ndarray of the resampled
\* streamlines, or the exception of set_number_of_points.
resample_bundle(streamlines, n_points) ==
  LET resampled == set_number_of_points(streamlines, n_points)
  IN IF resampled.error # "" THEN [error |-> resampled.error]
     ELSE [error |-> "", kind |-> "ndarray", rows |-> resampled.rows]

\* ------------------------------------------------------------------ volumes
\* The voxels of a volume: the line y = z = 0 of GridMax+1 voxels.
Voxels == {<<x, 0, 0>> : x \in 0..GridMax}

\* The value of a volume at integer voxel coordinates; scipy's
\* map_coordinates reads 0 outside the array (mode='constant', cval=0).
VolAt(vol, v) == IF v \in DOMAIN vol THEN vol[v] ELSE 0

\* Trilinear interpolation (map_coordinates, order=1) of vol at the point
\* p/den, times den^3.
InterpAt(vol, p, den) ==
  LET q == <<p[1] \div den, p[2] \div den, p[3] \div den>>
      r == <<p[1] % den, p[2] % den, p[3] % den>>
      Lz(x, y) ==
        IF r[3] = 0 THEN den * VolAt(vol, <<x, y, q[3]>>)
        ELSE (den - r[3]) * VolAt(vol, <<x, y, q[3]>>)
               + r[3] * VolAt(vol, <<x, y, q[3] + 1>>)
      Ly(x) ==
        IF r[2] = 0 THEN den * Lz(x, q[2])
        ELSE (den - r[2]) * Lz(x, q[2]) + r[2] * Lz(x, q[2] + 1)
  IN IF r[1] = 0 THEN den * Ly(q[1])
     ELSE (den - r[1]) * Ly(q[1]) + r[1] * Ly(q[1] + 1)

\* dts.values_from_volume(vol, fgarray) for one row of fgarray: the
\* interpolated value at every node, each times den^3.
values_from_volume(vol, sl) ==
  Tuple([i \in 1..Len(sl.pts) |-> InterpAt(vol, sl.pts[i], sl.den)])

\* The fraction num/den, den > 0, in lowest terms.
Fraction(num, den) ==
  LET g == Gcd(num, den)
  IN [num |-> num \div g, den |-> den \div g]

\* The sum of a sequence of fractions.
RECURSIVE SumFractions(_)
SumFractions(fs) ==
  IF fs = << >> THEN [num |-> 0, den |-> 1]
  ELSE LET a == Head(fs)
           b == SumFractions(Tail(fs))
       IN Fraction(a.num * b.den + b.num * a.den, a.den * b.den)

\* Lines 59-60 with the number of nodes for the number of streamlines.
uniform_weights_by_nodes(n_sl, n_nodes) ==
  Tuple([i \in 1..n_sl |-> Tuple([node \in 1..n_nodes |->
     [num |-> 1, den |-> n_nodes]])])

\* Lines 59-60: np.ones(values.shape) / values.shape[0]
uniform_weights(n_sl, n_nodes) ==
  Tuple([i \in 1..n_sl |-> Tuple([node \in 1..n_nodes |->
     [num |-> 1, den |-> n_sl]])])

\* calculate_tract_profile(img, streamlines, n_points=n_points) with the
\* identity for affine and without weights: streamlines is an array
\* (is_array), taken as it is, or a list, resampled to n_points; the
\* profile is np.sum(weights * values, 0), one fraction for every node.
calculate_tract_profile(vol, sls, is_array, n_points) ==
  LET fgarray == IF is_array THEN sls
                 ELSE resample_bundle(List(sls), n_points).rows
      n_sl == Len(fgarray)
      n_nodes == Len(fgarray[1].pts)
      values == Tuple([i \in 1..n_sl |->
                  values_from_volume(vol, fgarray[i])])
      w == uniform_weights(n_sl, n_nodes)
      den3(i) == fgarray[i].den * fgarray[i].den * fgarray[i].den
  IN Tuple([node \in 1..n_nodes |->
        SumFractions(Tuple([i \in 1..n_sl |->
           Fraction(w[i][node].num * values[i][node],
                    w[i][node].den * den3(i))]))])

\* One row of fgarray = _resample_bundle(streamlines, 100) (line 442), over
\* its least denominator.
fgarray_row(sl) == Normalize(ResampleOne(sl, NPointsSeg))

\* np.mean(values, -1) of one row of values_from_volume(vol, fgarray)
\* (lines 453-455): a fraction [num, den].
mean_values(vol, fg) ==
  LET vals == values_from_volume(vol, fg)
  IN [num |-> SumFn(vals, 1, Len(vals)),
      den |-> fg.den * fg.den * fg.den * Len(vals)]

\* The mean probability of the streamline sl in the volume vol.
fiber_probability(vol, sl) == mean_values(vol, fgarray_row(sl))

\* np.array(np.where(mask)).T: the coordinates of the true voxels, in
\* row-major (lexicographic) order.
mask_coords(mask) ==
  LET K == GridMax + 1
      keys == where({(v[1] * K + v[2]) * K + v[3] : v \in mask})
  IN Tuple([i \in 1..Len(keys) |->
        <<keys[i] \div (K * K), (keys[i] \div K) % K, keys[i] % K>>])

\* ---------------------------------------------------------------- distances
\* Squared Euclidean distance between the point p/den and the voxel r,
\* times den^2.
SqDist(p, den, r) ==
  LET d(a) == p[a] - den * r[a]
  IN d(1) * d(1) + d(2) * d(2) + d(3) * d(3)

\* cdist(sl, roi, 'sqeuclidean'): one row per node of sl, one column per
\* coordinate of roi; entries times den^2.
cdist(sl, roi) ==
  Tuple([i \in 1..Len(sl.pts) |->
     Tuple([j \in 1..Len(roi) |-> SqDist(sl.pts[i], sl.den, roi[j])])])

\* np.min(dist)
MatMin(dist) ==
  SetMin({dist[i][j] : i \in 1..Len(dist), j \in 1..Len(dist[1])})

\* np.argmin(dist, 0)[0]: the (0-based) row of the first least entry of the
\* first column.
ArgminFirstCol(dist) ==
  SetMin({i \in 1..Len(dist) :
            \A i2 \in 1..Len(dist) : dist[i][1] <= dist[i2][1]}) - 1

\* dts.dist_to_corner(affine)**2, times 4: the squared half diagonal of a
\* voxel is the sum of its squared edge lengths over 4.
FourTol(image) == image.vox_sq[1] + image.vox_sq[2] + image.vox_sq[3]

\* _check_sl_with_inclusion rejecting only a streamline that is far from
\* every inclusion ROI.
check_sl_with_inclusion_any(sl, rois, four_tol) ==
  LET dist == Tuple([k \in 1..Len(rois) |-> cdist(sl, rois[k])])
  IN IF /\ Len(rois) > 0
        /\ \A k \in 1..Len(rois) :
             \/ Len(rois[k]) = 0
             \/ 4 * MatMin(dist[k]) > four_tol * sl.den * sl.den
     THEN [error |-> "", is_close |-> FALSE, dist |-> <<>>]
     ELSE [error |-> "", is_close |-> TRUE, dist |-> dist]

\* _check_sl_with_inclusion(sl, include_rois, tol): the ROIs are taken in
\* order up to the first one the streamline is far from; np.min of the
\* distances to a ROI without coordinates raises ValueError.
check_sl_with_inclusion(sl, rois, four_tol) ==
  LET dist == Tuple([k \in 1..Len(rois) |-> cdist(sl, rois[k])])
      stop == {k \in 1..Len(rois) :
                 \/ Len(rois[k]) = 0
                 \/ 4 * MatMin(dist[k]) > four_tol * sl.den * sl.den}
  IN IF stop = {} THEN [error |-> "", is_close |-> TRUE, dist |-> dist]
     ELSE IF Len(rois[SetMin(stop)]) = 0
     THEN [error |-> "ValueError", is_close |-> FALSE, dist |-> <<>>]
     ELSE [error |-> "", is_close |-> FALSE, dist |-> <<>>]

\* _check_sl_with_exclusion that lets a streamline through only when the
\* bundle has no exclusion ROI.
check_sl_with_exclusion_none(sl, rois, four_tol) ==
  [error |-> "", is_far |-> Len(rois) = 0]

\* _check_sl_with_exclusion(sl, exclude_rois, tol): the ROIs are taken in
\* order up to the first one the streamline is close to.
check_sl_with_exclusion(sl, rois, four_tol) ==
  LET stop == {k \in 1..Len(rois) :
                 \/ Len(rois[k]) = 0
                 \/ 4 * MatMin(cdist(sl, rois[k]))
                      < four_tol * sl.den * sl.den}
  IN IF stop = {} THEN [error |-> "", is_far |-> TRUE]
     ELSE IF Len(rois[SetMin(stop)]) = 0
     THEN [error |-> "ValueError", is_far |-> FALSE]
     ELSE [error |-> "", is_far |-> FALSE]

\* split_streamlines counting a point on the midline as a point of both
\* sides.
split_streamlines_touching(sls, image) ==
  LET zx == image.zero_coord[1]
  IN [i \in 1..Len(sls) |->
        /\ \E k \in 1..Len(sls[i].pts) : sls[i].pts[k][1] >= zx * sls[i].den
        /\ \E k \in 1..Len(sls[i].pts) : sls[i].pts[k][1] <= zx * sls[i].den]

\* split_streamlines(streamlines, template)[1]: crosses[i] iff streamline i
\* has a point strictly above and a point strictly below the x coordinate
\* of the world origin in the image's voxel space.
split_streamlines(sls, image) ==
  LET zx == image.zero_coord[1]
  IN [i \in 1..Len(sls) |->
        /\ \E k \in 1..Len(sls[i].pts) : sls[i].pts[k][1] > zx * sls[i].den
        /\ \E k \in 1..Len(sls[i].pts) : sls[i].pts[k][1] < zx * sls[i].den]

\* split_streamlines(streamlines, template): the streamlines it was given
\* (line 179; the code that split a streamline is commented out) and the
\* array crosses.
split_streamlines_returned(sls, image) ==
  [streamlines |-> sls, crosses |-> Tuple(split_streamlines(sls, image))]

\* ------------------------------------------------------------ ROI warping
\* An attribute that has not been assigned, and one that has.
Unset == [set |-> FALSE]

Some(v) == [set |-> TRUE, val |-> v]

\* mapping.transform_inverse(volume): the mapping is the caller's object;
\* the modelled ones displace a volume by mapping.shift voxels along x
\* (both interpolation modes agree on whole-voxel displacements).
ShiftVoxel(v, k) == <<v[1] + k, v[2], v[3]>>

transform_inverse_mask(map, mask) ==
  {v \in Voxels : ShiftVoxel(v, map.shift) \in mask}

transform_inverse(map, vol) ==
  [v \in Voxels |-> VolAt(vol, ShiftVoxel(v, map.shift))]

\* The voxels with a face on the boundary of the volume.
OnBorder(v) ==
  \/ v[1] = 0 \/ v[1] = GridMax
  \/ v[2] = 0 \/ v[3] = 0

Neighbours(v) ==
  {w \in Voxels :
     Abs(w[1] - v[1]) + Abs(w[2] - v[2]) + Abs(w[3] - v[3]) = 1}

\* The background voxels reachable from the set S through the background.
RECURSIVE Flood(_, _)
Flood(S, bg) ==
  LET more == {w \in bg \ S : \E v \in S : w \in Neighbours(v)}
  IN IF more = {} THEN S ELSE Flood(S \cup more, bg)

\* auv.patch_up_roi(mask): fills the holes of the mask, the background
\* voxels that are not connected to the boundary of the volume.
patch_up_roi(mask) ==
  LET bg == Voxels \ mask
  IN Voxels \ Flood({v \in bg : OnBorder(v)}, bg)

\* The name under which bundle number i is entered in bundle_dict.
BundleNames == <<"ARC_L", "ARC_R", "CST_L", "CST_R">>

\* Segment.create_prob(bundle_dict), with self.mapping as it is (Unset when
\* no mapping has been assigned): the include and exclude coordinate lists
\* and the warped probability map of every bundle.  The three lists start
\* as len(bundle_dict) * [None] and are filled bundle by bundle, up to the
\* first exception.  self.mapping is read at the first ROI.  The default
\* np.ones(roi.shape) of the prob_map lookup is evaluated whether or not
\* the bundle has a prob_map, and roi is the loop variable of the ROI loop:
\* it is unbound until some bundle so far has had a ROI.
create_prob(map, bd) ==
  LET rois_of(b, want) ==
        LET ks == where({k \in 1..Len(bd[b].rules) : bd[b].rules[k] = want})
        IN [i \in 1..Len(ks) |->
              mask_coords(patch_up_roi(
                transform_inverse_mask(map.val, bd[b].ROIs[ks[i]])))]
      unbound == {b \in 1..Len(bd) :
                    \A b2 \in 1..b : Len(bd[b2].rules) = 0}
      ones == [v \in Voxels |-> 1]
  IN IF unbound # {}
     THEN [error |-> "UnboundLocalError",
           include_rois |-> [b \in 1..Len(bd) |-> IF b = 1 THEN <<>> ELSE None],
           exclude_rois |-> [b \in 1..Len(bd) |-> IF b = 1 THEN <<>> ELSE None],
           warped_prob_map |-> [b \in 1..Len(bd) |-> None]]
     ELSE IF ~ map.set
     THEN [error |-> "AttributeError",
           include_rois |-> [b \in 1..Len(bd) |-> None],
           exclude_rois |-> [b \in 1..Len(bd) |-> None],
           warped_prob_map |-> [b \in 1..Len(bd) |-> None]]
     ELSE [error |-> "",
           include_rois |-> [b \in 1..Len(bd) |-> rois_of(b, TRUE)],
           exclude_rois |-> [b \in 1..Len(bd) |-> rois_of(b, FALSE)],
           warped_prob_map |->
             [b \in 1..Len(bd) |->
                transform_inverse(map.val,
                  IF bd[b].prob_map.set THEN bd[b].prob_map.val ELSE ones)]]

\* ------------------------------------------------------------------ inputs
\* A streamline of the tractography: 2..MaxPts voxel centres on the line,
\* each one voxel from the one before.
RECURSIVE Paths(_)
Paths(n) ==
  IF n = 1 THEN {<<x>> : x \in 0..GridMax}
  ELSE {Append(p, x) : p \in Paths(n - 1), x \in 0..GridMax}

InputStreamlines ==
  {[den |-> 1, pts |-> Tuple([i \in 1..Len(p) |-> <<p[i], 0, 0>>])] :
     p \in {q \in UNION {Paths(n) : n \in 2..MaxPts} :
              \A i \in 1..(Len(q) - 1) : Abs(q[i + 1] - q[i]) = 1}}

\* A tractogram: 1..MaxSl streamlines.
Tractograms == UNION {[1..n -> InputStreamlines] : n \in 1..MaxSl}

\* The image read by prepare_img, by what segmentation uses of its affine:
\* the squared voxel edge lengths and the voxel coordinate of the world
\* origin.
Images ==
  {[vox_sq |-> <<1, 1, z>>, zero_coord |-> <<1, 0, 0>>] : z \in 1..MaxVoxSq}

Mappings == {[shift |-> k] : k \in 0..MaxShift}

\* ROI volumes, as the set of their nonzero voxels.
Masks == {m \in SUBSET Voxels : m # {} /\ Cardinality(m) <= MaxRoiVox}

\* The ROI volumes of one voxel, <<x, 0, 0>> with x \in xs.
VoxelMasks(xs) == {{<<x, 0, 0>>} : x \in xs}

\* Probability volumes: the empty one, and those that are 1..MaxProb in the
\* first or in the last voxel and 0 elsewhere.
PeakMap(x, p) == [v \in Voxels |-> IF v[1] = x THEN p ELSE 0]

ProbMaps ==
  {PeakMap(x, p) : x \in {0, GridMax}, p \in 1..MaxProb}
    \cup {[v \in Voxels |-> 0]}

\* prob_threshold: 0 (the default) and multiples of 3/8, as fractions.
Thresholds == {[num |-> 3 * k, den |-> 8] : k \in 0..MaxThr}

\* One entry of bundle_dict: the inclusion ROIs inc, then the exclusion
\* ROIs exc; prob_map is Unset when the entry has no 'prob_map' key.
Bundle(inc, exc, pm, cm) ==
  [ROIs |-> inc \o exc,
   rules |-> [k \in 1..(Len(inc) + Len(exc)) |-> k <= Len(inc)],
   prob_map |-> pm,
   cross_midline |-> cm]

CrossMidline == {"True", "False", "None"}

\* The entries a bundle_dict of one bundle is made of: 0..MaxInc inclusion
\* ROIs, 0..MaxExc exclusion ROIs of one voxel.
BundleSpecs ==
  {Bundle(inc, exc, pm, cm) :
     inc \in UNION {[1..n -> Masks] : n \in 0..MaxInc},
     exc \in UNION {[1..n -> VoxelMasks(0..GridMax)] : n \in 0..MaxExc},
     pm \in {Unset} \cup {Some(m) : m \in ProbMaps},
     cm \in CrossMidline}

\* The ROIs within the first two voxels, and those of them that hold the
\* first voxel.
NearMasks == {m \in Masks : \A v \in m : v[1] <= 1}

FirstMasks == {m \in NearMasks : <<0, 0, 0>> \in m}

\* The entries of the bundle_dicts segmented with tractograms of several
\* streamlines: two inclusion ROIs among masks, and either no probability
\* map or the one that peaks in the first voxel.
PairSpecs(masks, cms) ==
  {Bundle(inc, << >>, pm, cm) :
     inc \in [1..2 -> masks],
     pm \in {Unset} \cup {Some(PeakMap(0, p)) : p \in 1..MaxProb},
     cm \in cms}

\* bundle_dicts (in the order of their keys BundleNames[1], BundleNames[2],
\* ...) of 2..MaxBundles bundles without a midline rule.
PairDicts ==
  UNION {[1..n -> PairSpecs(FirstMasks, {"None"})] : n \in 2..MaxBundles}

\* ------------------------------------------------------ sampled probability
\* The streamlines segment_sls can be given: those of the tractography, and
\* their resamplings by Segment.resample.
SegStreamlines ==
  InputStreamlines
    \cup {Normalize(ResampleOne(sl, n)) :
            sl \in InputStreamlines, n \in ResampleNps \ {0}}

\* The probability volumes create_prob can produce.
WarpedProbMaps ==
  {transform_inverse(map, pm) :
     map \in Mappings, pm \in ProbMaps \cup {[v \in Voxels |-> 1]}}

\* A finite set as a tuple.
RECURSIVE SetToSeq(_)
SetToSeq(S) ==
  IF S = {} THEN << >>
  ELSE LET x == CHOOSE y \in S : TRUE IN <<x>> \o SetToSeq(S \ {x})

SegStreamlineList == SetToSeq(SegStreamlines)

WarpedProbMapList == SetToSeq(WarpedProbMaps)

FgarrayList ==
  Tuple([i \in 1..Len(SegStreamlineList) |->
     fgarray_row(SegStreamlineList[i])])

\* fiber_probability, computed once for every streamline and volume above.
FiberProbabilityTable ==
  Tuple([i \in 1..Len(SegStreamlineList) |->
     Tuple([j \in 1..Len(WarpedProbMapList) |->
        mean_values(WarpedProbMapList[j], FgarrayList[i])])])

\* Entry number i, j of table for the streamline sl and the volume vol, if
\* they are the i-th of sl_list and the j-th of vol_list, else value.
tabulated(sl, vol, sl_list, vol_list, table, value) ==
  LET is == {i \in 1..Len(sl_list) : sl_list[i] = sl}
      js == {j \in 1..Len(vol_list) : vol_list[j] = vol}
  IN IF is # {} /\ js # {}
     THEN table[CHOOSE i \in is : TRUE][CHOOSE j \in js : TRUE]
     ELSE value

\* fiber_probabilities of one bundle (lines 453-455): the mean over the
\* nodes of fgarray's rows of the bundle's probability volume.
fiber_probabilities(vol, sls) ==
  Tuple([s \in 1..Len(sls) |->
     tabulated(sls[s], vol, SegStreamlineList, WarpedProbMapList,
               FiberProbabilityTable, fiber_probability(vol, sls[s]))])

\* ------------------------------------------------------------ segment_sls
\* The probability gate without the threshold.
above_threshold_zero(prob, prob_threshold) == prob.num > 0

\* fiber_probabilities[sl_idx] > prob_threshold (line 459), both fractions.
above_threshold(prob, prob_threshold) ==
  prob.num * prob_threshold.den > prob_threshold.num * prob.den

\* One pass of the inner loop of segment_sls (lines 459-485) for streamline
\* number s, of points sl and probability prob for the bundle.
\* what = "skip": nothing is recorded; "score": min_dist_coords and
\* streamlines_in_bundles are assigned; otherwise the exception raised.
\* self.crosses is read only inside `try ... except NameError`, which
\* catches neither a missing attribute nor an index out of range.
sl_in_bundle(sl, s, prob, prob_threshold, four_tol, crosses_midline, crosses_attr, inc, exc) ==
  LET skip == [what |-> "skip"]
      incl == check_sl_with_inclusion(sl, inc, four_tol)
      excl == check_sl_with_exclusion(sl, exc, four_tol)
      rois ==
        IF incl.error # "" THEN [what |-> incl.error]
        ELSE IF ~ incl.is_close THEN skip
        ELSE IF excl.error # "" THEN [what |-> excl.error]
        ELSE IF ~ excl.is_far THEN skip
        ELSE IF Len(incl.dist) < 2 THEN [what |-> "IndexError"]
        ELSE [what |-> "score",
              min0 |-> ArgminFirstCol(incl.dist[1]),
              min1 |-> ArgminFirstCol(incl.dist[2]),
              score |-> prob.num]
  IN IF ~ above_threshold(prob, prob_threshold) THEN skip
     ELSE IF crosses_midline = "None" THEN rois
     ELSE IF ~ crosses_attr.set THEN [what |-> "AttributeError"]
     ELSE IF s > Len(crosses_attr.val) THEN [what |-> "IndexError"]
     ELSE IF crosses_attr.val[s] /\ crosses_midline = "False" THEN skip
     ELSE rois

\* np.argmax taking the last position of the greatest entry.
argmax_last(row) ==
  SetMax({b \in 1..Len(row) : \A b2 \in 1..Len(row) : row[b] >= row[b2]})

\* np.argmax(row): the first position of the greatest entry.
argmax(row) ==
  SetMin({b \in 1..Len(row) : \A b2 \in 1..Len(row) : row[b] >= row[b2]})

\* select_idx without the choice among bundles: every streamline the
\* bundle scored.
select_idx_scored(streamlines_in_bundles, b) ==
  where({s \in 1..Len(streamlines_in_bundles) :
           streamlines_in_bundles[s][b] > 0})

\* Lines 489-500: the streamlines (numbered as given to segment_sls) chosen
\* for bundle number b: those with a positive sum of scores whose greatest
\* score is b's, in increasing order.
select_idx(streamlines_in_bundles, b) ==
  where({s \in 1..Len(streamlines_in_bundles) :
           /\ SumFn(streamlines_in_bundles[s], 1,
                    Len(streamlines_in_bundles[s])) > 0
           /\ argmax(streamlines_in_bundles[s]) = b})

\* The last loop of segment_sls entering only the bundles chosen for some
\* streamline.
fiber_group_keys_chosen(nb, streamlines_in_bundles) ==
  {b \in 1..nb : Len(select_idx(streamlines_in_bundles, b)) > 0}

\* Lines 499-517: the bundles that get an entry in self.fiber_groups, the
\* empty ones (line 504) and the others (line 517).
fiber_group_keys(nb, streamlines_in_bundles) ==
  {b \in 1..nb : Len(select_idx(streamlines_in_bundles, b)) = 0}
    \cup {b \in 1..nb : Len(select_idx(streamlines_in_bundles, b)) > 0}

\* The inner loop of segment_sls (lines 458-485) for one bundle, fp its
\* fiber_probabilities.
score_bundle(sls, fp, prob_threshold, four_tol, crosses_midline, crosses_attr, inc, exc) ==
  Tuple([s \in 1..Len(sls) |->
     sl_in_bundle(sls[s], s, fp[s], prob_threshold, four_tol,
                  crosses_midline, crosses_attr, inc, exc)])

\* Lines 452-485, the loop over the bundles and the streamlines: what
\* becomes of every streamline for every bundle.
score_streamlines(sls, bd, inc, exc, prob_maps, four_tol, crosses_attr, prob_threshold) ==
  Tuple([b \in 1..Len(bd) |->
     score_bundle(sls, fiber_probabilities(prob_maps[b], sls),
                  prob_threshold, four_tol, bd[b].cross_midline,
                  crosses_attr, inc[b], exc[b])])

\* Lines 499-517: self.fiber_groups and the indices select_idx of every
\* bundle, from the scores and the node indices of the first loop.
orient_groups(sls, nb, streamlines_in_bundles, min_dist_coords) ==
  LET oriented(s, b) ==
        IF min_dist_coords[s][b][1] > min_dist_coords[s][b][2]
        THEN [den |-> sls[s].den, pts |-> Tuple(Reverse(sls[s].pts))]
        ELSE sls[s]
      keys == fiber_group_keys(nb, streamlines_in_bundles)
      idx == Tuple([b \in 1..nb |-> select_idx(streamlines_in_bundles, b)])
      names == {BundleNames[b] : b \in keys}
      number(name) == CHOOSE b \in 1..nb : BundleNames[b] = name
  IN [error |-> "",
      fiber_groups_assigned |-> TRUE,
      fiber_groups |->
        [name \in names |->
           Tuple([i \in 1..Len(idx[number(name)]) |->
                    oriented(idx[number(name)][i], number(name))])],
      fiber_idx |-> [name \in names |-> idx[number(name)]],
      streamlines_in_bundles |-> streamlines_in_bundles,
      min_dist_coords |-> min_dist_coords]

\* streamlines[possible_fibers] (line 490), the streamlines indexed with an
\* array of booleans: a Streamlines and an ndarray select, a Python list
\* raises TypeError (only integer scalar arrays can be converted to a
\* scalar index).
boolean_index_error(streamlines) ==
  IF streamlines.kind = "list" THEN "TypeError" ELSE ""

\* Lines 484-517 from the outcome res of the first loop: the exception it
\* raised, the first in the order of the loops, else the exception of line
\* 490, else the arrays streamlines_in_bundles and min_dist_coords and the
\* fiber groups.  self.fiber_groups is {} (line 448) when an exception
\* ends the call.
conclude(streamlines, nb, res) ==
  LET sls == streamlines.rows
      ns == Len(sls)
      raised == {p \in (1..nb) \X (1..ns) :
                   res[p[1]][p[2]].what \notin {"skip", "score"}}
      first == CHOOSE p \in raised :
                 \A p2 \in raised :
                   p[1] < p2[1] \/ (p[1] = p2[1] /\ p[2] <= p2[2])
  IN IF raised # {}
     THEN [error |-> res[first[1]][first[2]].what,
           fiber_groups_assigned |-> TRUE,
           fiber_groups |-> << >>,
           fiber_idx |-> << >>,
           streamlines_in_bundles |-> << >>,
           min_dist_coords |-> << >>]
     ELSE IF boolean_index_error(streamlines) # ""
     THEN [error |-> boolean_index_error(streamlines),
           fiber_groups_assigned |-> TRUE,
           fiber_groups |-> << >>,
           fiber_idx |-> << >>,
           streamlines_in_bundles |-> << >>,
           min_dist_coords |-> << >>]
     ELSE orient_groups(sls, nb,
            Tuple([s \in 1..ns |-> Tuple([b \in 1..nb |->
               IF res[b][s].what = "score" THEN res[b][s].score ELSE 0])]),
            Tuple([s \in 1..ns |-> Tuple([b \in 1..nb |->
               IF res[b][s].what = "score"
               THEN <<res[b][s].min0, res[b][s].min1>> ELSE <<0, 0>>])]))

\* Segment.segment_sls on the streamlines sls (self.streamlines, or the
\* argument), in their container: the fiber groups, or the exception that
\* ends the call.  fgarray = _resample_bundle(streamlines, 100) (line 442)
\* comes before self.fiber_groups = {} (line 448): when it raises,
\* self.fiber_groups is not assigned.  The rows of fgarray are computed
\* where they are read (fgarray_row).
\* fiber_idx[bundle] is select_idx[0] of the bundle's pass of the last loop.
segment_sls(sls, bd, inc, exc, prob_maps, image, crosses_attr, prob_threshold) ==
  LET fgarray_error == set_number_of_points_error(sls)
  IN IF fgarray_error # ""
     THEN [error |-> fgarray_error,
           fiber_groups_assigned |-> FALSE,
           fiber_groups |-> << >>,
           fiber_idx |-> << >>,
           streamlines_in_bundles |-> << >>,
           min_dist_coords |-> << >>]
     ELSE conclude(sls, Len(bd),
            score_streamlines(sls.rows, bd, inc, exc, prob_maps,
                              FourTol(image), crosses_attr, prob_threshold))

\* -------------------------------------------------------- gaussian_weights
\* An entry of an array of Mahalanobis distances is nan or the square of
\* the distance, a fraction of positive denominator.
NaN == [nan |-> TRUE]

Lcm(a, b) == (a * b) \div Gcd(a, b)

\* The least common denominator of the rows of an array of streamlines.
RECURSIVE CommonDen(_)
CommonDen(bundle) ==
  IF bundle = << >> THEN 1
  ELSE Lcm(Head(bundle).den, CommonDen(Tail(bundle)))

\* bundle[:, node]: the coordinates of the rows at a node, as integers over
\* the common denominator.  A Mahalanobis distance does not change when all
\* coordinates are scaled alike, so the denominator is not carried further.
node_coords(bundle, node) ==
  LET D == CommonDen(bundle)
  IN Tuple([fn \in 1..Len(bundle) |->
        LET k == D \div bundle[fn].den
            p == bundle[fn].pts[node]
        IN <<p[1] * k, p[2] * k, p[3] * k>>])

\* The entries of a sequence of integers in increasing order.
Sorted(xs) ==
  Tuple([k \in 1..Len(xs) |->
           CHOOSE v \in {xs[j] : j \in 1..Len(xs)} :
              /\ Cardinality({j \in 1..Len(xs) : xs[j] < v}) < k
              /\ k <= Cardinality({j \in 1..Len(xs) : xs[j] <= v})])

\* np.cov(node_coords.T, ddof=0) times n^2, n the number of rows: entry
\* (a, b) is n times the sum over the rows x of x[a] * x[b], less
\* S[a] * S[b], S the sum of the rows.
cov(X) ==
  LET n == Len(X)
      S == Tuple([a \in 1..3 |-> SumFn([fn \in 1..n |-> X[fn][a]], 1, n)])
      C(a, b) == n * SumFn([fn \in 1..n |-> X[fn][a] * X[fn][b]], 1, n)
                 - S[a] * S[b]
      c12 == C(1, 2)
      c13 == C(1, 3)
      c23 == C(2, 3)
  IN <<<<C(1, 1), c12, c13>>,
       <<c12, C(2, 2), c23>>,
       <<c13, c23, C(3, 3)>>>>

\* Lines 110-112: c with the entries under its diagonal set to 0.
upper(c) ==
  CHOOSE r \in {<<<<u[1][1], u[1][2], u[1][3]>>,
                  <<0, u[2][2], u[2][3]>>,
                  <<0, 0, u[3][3]>>>> : u \in {c}} : TRUE

\* np.linalg.inv of an upper triangular 3 by 3 matrix: LinAlgError when the
\* matrix is singular, else adj / det.  (The matrix is taken from a set of
\* one element so that it is computed once.)
inv(c) ==
  CHOOSE r \in
    {[singular |-> u[1][1] * u[2][2] * u[3][3] = 0,
      det |-> u[1][1] * u[2][2] * u[3][3],
      adj |-> <<<<u[2][2] * u[3][3], - u[1][2] * u[3][3],
                  u[1][2] * u[2][3] - u[1][3] * u[2][2]>>,
                <<0, u[1][1] * u[3][3], - u[1][1] * u[2][3]>>,
                <<0, 0, u[1][1] * u[2][2]>>>>] : u \in {c}} : TRUE

\* np.mean(node_coords, 0) times 2n.
mean(X) ==
  LET n == Len(X)
  IN Tuple([a \in 1..3 |-> 2 * SumFn([fn \in 1..n |-> X[fn][a]], 1, n)])

\* np.median(node_coords, 0) times 2n: the middle value of each coordinate,
\* or the mean of the two middle values.
median(X) ==
  LET n == Len(X)
  IN Tuple([a \in 1..3 |->
        LET s == Sorted(Tuple([fn \in 1..n |-> X[fn][a]]))
        IN IF n % 2 = 1 THEN 2 * n * s[(n + 1) \div 2]
           ELSE n * (s[n \div 2] + s[(n \div 2) + 1])])

\* The statistics given as stat.
Stats == {"mean", "median"}

\* stat(node_coords, 0) times 2n.
stat_of(stat, X) == IF stat = "mean" THEN mean(X) ELSE median(X)

\* scipy's mahalanobis(u, m, VI), squared: with delta = u - m, the form
\* dot(dot(delta, VI), delta), the square root of a negative form being nan.
\* Here u is a row of X, m is over 2n and VI is n^2 * adj / det, so that the
\* form is (delta adj delta) / (4 * det) with delta = 2n*u - m, kept in
\* lowest terms.  The variances on the diagonal are positive, hence
\* det > 0.
mahalanobis(n, u, m, VI) ==
  LET delta == Tuple([a \in 1..3 |-> 2 * n * u[a] - m[a]])
      form == SumFn([i \in 1..9 |->
                 LET a == ((i - 1) \div 3) + 1
                     b == ((i - 1) % 3) + 1
                 IN delta[a] * VI.adj[a][b] * delta[b]], 1, 9)
  IN IF form < 0 THEN NaN
     ELSE LET d == Fraction(form, 4 * VI.det)
          IN [nan |-> FALSE, num |-> d.num, den |-> d.den]

\* Lines 110-120 at one node, X the coordinates of the rows there: whether
\* c is singular and, when it is not, the distance of every row.  (In this
\* and in the next definitions a value is taken from a set of one element
\* so that it is computed once.)
node_mahalanobis(X, stat) ==
  CHOOSE r \in
    {[singular |-> VI.singular,
      w |-> IF VI.singular THEN << >>
            ELSE Tuple([fn \in 1..Len(X) |->
                          mahalanobis(Len(X), X[fn], m, VI)])] :
       VI \in {inv(upper(cov(X)))}, m \in {stat_of(stat, X)}} : TRUE

\* Lines 107-120, one pass of the loop over the nodes, for the
\* coordinates node_coords of the rows at the node.
node_distances(node_coords_, stat) ==
  CHOOSE r \in {node_mahalanobis(X, stat) : X \in {node_coords_}} : TRUE

\* The array w from what the passes over the nodes gave.
distances(n, at) ==
  IF \E node \in 1..Len(at) : at[node].singular
  THEN [error |-> "LinAlgError", w |-> << >>]
  ELSE [error |-> "",
        w |-> Tuple([fn \in 1..n |->
                Tuple([node \in 1..Len(at) |-> at[node].w[fn]])])]

\* gaussian_weights(bundle, return_mahalnobis=True, stat=stat) for bundle an
\* array of resampled streamlines, as clean_fiber_group calls it: the
\* array w of the (squared) Mahalanobis distances of every row at every
\* node.  One row gives the array [nan]; no row gives an array without
\* rows (np.cov and stat then give nan with a warning, and no distance is
\* computed); np.linalg.inv raises LinAlgError at a node where the rows do
\* not vary in one of the three coordinates.
gaussian_weights(bundle, stat) ==
  LET n == Len(bundle)
  IN IF n = 0 THEN [error |-> "", w |-> << >>]
     ELSE IF n = 1 THEN [error |-> "", w |-> <<<<NaN>>>>]
     ELSE CHOOSE r \in
            {distances(n, at) :
               at \in {Tuple([node \in 1..Len(bundle[1].pts) |->
                         node_distances(node_coords(bundle, node), stat)])}} :
              TRUE

\* Line 125, 1 / w, for an entry of w: the reciprocal of a distance of
\* square x, nan for nan and inf for 0 (numpy divides by zero with a
\* warning); a finite reciprocal is kept by its square.
reciprocal(x) ==
  IF x.nan THEN [kind |-> "nan"]
  ELSE IF x.num = 0 THEN [kind |-> "inf"]
  ELSE [kind |-> "finite", sq |-> Fraction(x.den, x.num)]

\* np.sum(w, 0) at one node, col the reciprocals of the streamlines there:
\* nan when a term is nan, else inf when a term is inf, else the sum of
\* the terms, kept as the terms.
column_sum(col) ==
  IF \E fn \in 1..Len(col) : col[fn].kind = "nan" THEN [kind |-> "nan"]
  ELSE IF \E fn \in 1..Len(col) : col[fn].kind = "inf" THEN [kind |-> "inf"]
  ELSE [kind |-> "finite",
        terms |-> Tuple([fn \in 1..Len(col) |-> col[fn].sq])]

\* Line 127, w / np.sum(w, 0), for one entry: nan when either is nan and
\* for inf / inf, 0 for a finite entry over inf, else the share of the
\* entry in the sum.
divide(x, total) ==
  IF x.kind = "nan" \/ total.kind = "nan" THEN [kind |-> "nan"]
  ELSE IF x.kind = "inf" THEN [kind |-> "nan"]
  ELSE IF total.kind = "inf" THEN [kind |-> "zero"]
  ELSE [kind |-> "share", sq |-> x.sq, terms |-> total.terms]

\* gaussian_weights(bundle, return_mahalnobis=False, stat=stat) for bundle
\* an array: the weights, the array [1] for one streamline.
gaussian_weights_normalized(bundle, stat) ==
  LET n == Len(bundle)
      g == gaussian_weights(bundle, stat)
  IN IF n = 1 THEN [error |-> "", w |-> <<<<[kind |-> "one"]>>>>]
     ELSE IF g.error # "" \/ n = 0 THEN g
     ELSE
       LET n_points == Len(g.w[1])
           r == Tuple([fn \in 1..n |->
                   Tuple([node \in 1..n_points |->
                      reciprocal(g.w[fn][node])])])
           total == Tuple([node \in 1..n_points |->
                       column_sum(Tuple([fn \in 1..n |-> r[fn][node]]))])
       IN [error |-> "",
           w |-> Tuple([fn \in 1..n |->
                   Tuple([node \in 1..n_points |->
                      divide(r[fn][node], total[node])])])]

\* ------------------------------------------------------- clean_fiber_group
\* w > clean_threshold and w < clean_threshold for an entry of w, both
\* False for nan.
greater(x, clean_threshold) ==
  /\ ~ x.nan
  /\ x.num * clean_threshold.den * clean_threshold.den
       > clean_threshold.num * clean_threshold.num * x.den

less(x, clean_threshold) ==
  /\ ~ x.nan
  /\ x.num * clean_threshold.den * clean_threshold.den
       < clean_threshold.num * clean_threshold.num * x.den

\* np.any(w > clean_threshold)
any_greater(w, clean_threshold) ==
  \E fn \in 1..Len(w) : \E node \in 1..Len(w[fn]) :
     greater(w[fn][node], clean_threshold)

\* The test of the loop without its bound on the rounds.
loop_condition_unbounded(w, rounds_elapsed, n_sl, clean_rounds, clean_threshold, min_sl) ==
  /\ any_greater(w, clean_threshold)
  /\ n_sl > min_sl

\* Lines 567-569, the test of the loop: n_sl is len(streamlines), the
\* number of streamlines given, which the loop does not change.
loop_condition(w, rounds_elapsed, n_sl, clean_rounds, clean_threshold, min_sl) ==
  /\ any_greater(w, clean_threshold)
  /\ rounds_elapsed < clean_rounds
  /\ n_sl > min_sl

\* The rows that are under the threshold at some node.
belong_any_node(w, clean_threshold) ==
  where({fn \in 1..Len(w) :
           \E node \in 1..Len(w[fn]) : less(w[fn][node], clean_threshold)})

\* Lines 572-573, np.where(np.all(w < clean_threshold, axis=-1))[0]: the
\* rows that are under the threshold at every node, by their positions in
\* the array of the round.
belong(w, clean_threshold) ==
  where({fn \in 1..Len(w) :
           \A node \in 1..Len(w[fn]) : less(w[fn][node], clean_threshold)})

\* The positions idx_belong as they are in the array of the round.
positions_in_round(idx, idx_belong) == idx_belong

\* Line 574, idx[idx_belong]: the numbers in streamlines of the rows kept.
compose(idx, idx_belong) ==
  Tuple([k \in 1..Len(idx_belong) |-> idx[idx_belong[k]]])

\* Line 576, fgarray[idx_belong]: the rows kept.
select(fgarray, idx_belong) ==
  Tuple([k \in 1..Len(idx_belong) |-> fgarray[idx_belong[k]]])

\* Lines 572-577, the body of the loop up to the distances: the rows that
\* are under the threshold at every node are kept, in idx by their
\* numbers in streamlines and in fgarray by their points, and the
\* distances are computed anew, with the default stat of gaussian_weights.
clean_round(fgarray, idx, w, clean_threshold) ==
  LET idx_belong == belong(w, clean_threshold)
      fgarray2 == select(fgarray, idx_belong)
  IN [idx |-> compose(idx, idx_belong), fgarray |-> fgarray2,
      g |-> gaussian_weights(fgarray2, "mean")]

\* Lines 565-578: the rounds of cleaning, from the array fgarray of the
\* rows still there, their indices idx in streamlines, their distances w,
\* and the rounds and the calls of gaussian_weights so far.
RECURSIVE clean_loop(_, _, _, _, _, _, _, _, _)
clean_loop(n_sl, fgarray, idx, w, rounds_elapsed, weights_calls, clean_rounds, clean_threshold, min_sl) ==
  IF loop_condition(w, rounds_elapsed, n_sl, clean_rounds, clean_threshold,
                    min_sl)
  THEN LET r == clean_round(fgarray, idx, w, clean_threshold)
       IN IF r.g.error # ""
          THEN [error |-> r.g.error, idx |-> r.idx, w |-> << >>,
                rounds_elapsed |-> rounds_elapsed,
                weights_calls |-> weights_calls + 1]
          ELSE clean_loop(n_sl, r.fgarray, r.idx, r.g.w, rounds_elapsed + 1,
                          weights_calls + 1, clean_rounds, clean_threshold,
                          min_sl)
  ELSE [error |-> "", idx |-> idx, w |-> w,
        rounds_elapsed |-> rounds_elapsed, weights_calls |-> weights_calls]

\* The guard of line 555 with min_sl one less.
too_few_but_one(streamlines, min_sl) == Len(streamlines) < min_sl - 1

\* Line 555: len(streamlines) < min_sl
too_few(streamlines, min_sl) == Len(streamlines) < min_sl

\* clean_fiber_group from the array fgarray of its resampled streamlines
\* (line 559) and their first distances g (line 564), which it computes
\* when the guard lets it: what it returns or raises, whether it has
\* resampled, the calls of gaussian_weights and the rounds it has made, and
\* its locals idx and w at the end.
clean_fiber_group_from(streamlines, fgarray, g, clean_rounds, clean_threshold, min_sl) ==
  IF too_few(streamlines, min_sl)
  THEN [error |-> "", returned |-> streamlines, resampled |-> FALSE,
        weights_calls |-> 0, rounds_elapsed |-> 0, idx |-> Unset,
        w |-> Unset]
  ELSE
    LET idx == Tuple([i \in 1..Len(fgarray) |-> i])
        r == IF g.error # ""
             THEN [error |-> g.error, idx |-> idx, w |-> << >>,
                   rounds_elapsed |-> 0, weights_calls |-> 1]
             ELSE clean_loop(Len(streamlines), fgarray, idx, g.w, 0, 1,
                             clean_rounds, clean_threshold, min_sl)
    IN [error |-> r.error,
        returned |-> IF r.error # "" THEN << >>
                     ELSE Tuple([k \in 1..Len(r.idx) |->
                                   streamlines[r.idx[k]]]),
        resampled |-> TRUE,
        weights_calls |-> r.weights_calls,
        rounds_elapsed |-> r.rounds_elapsed,
        idx |-> Some(r.idx),
        w |-> Some(r.w)]

\* clean_fiber_group(streamlines, n_points, clean_rounds, clean_threshold,
\* min_sl, stat)
clean_fiber_group(streamlines, n_points, clean_rounds, clean_threshold, min_sl, stat) ==
  clean_fiber_group_from(
    streamlines, resample_bundle(Streamlines(streamlines), n_points).rows,
    gaussian_weights(
      resample_bundle(Streamlines(streamlines), n_points).rows, stat),
    clean_rounds, clean_threshold, min_sl)

\* The fiber groups given to clean_fiber_group: sequences of streamlines
\* of one segment, from four points that span the grid to two points.
CleanStreamlineList ==
  <<[den |-> 1, pts |-> <<<<0, 2, 2>>, <<1, 1, 0>>>>],
    [den |-> 1, pts |-> <<<<1, 0, 1>>, <<1, 1, 0>>>>],
    [den |-> 1, pts |-> <<<<2, 1, 0>>, <<0, 0, 1>>>>],
    [den |-> 1, pts |-> <<<<2, 2, 2>>, <<0, 0, 1>>>>]>>

CleanStreamlines ==
  {CleanStreamlineList[i] : i \in 1..Len(CleanStreamlineList)}

CleanFiberGroups ==
  UNION {[1..n -> CleanStreamlines] : n \in 0..MaxCleanSl}

\* The fiber groups whose streamlines come in the order of the list, which
\* are the fiber groups up to the order of their streamlines.
LoopFiberGroups ==
  UNION {{Tuple([k \in 1..n |-> CleanStreamlineList[f[k]]]) :
            f \in {h \in [1..n -> 1..Len(CleanStreamlineList)] :
                     \A k \in 1..(n - 1) : h[k] <= h[k + 1]}} :
         n \in 0..MaxCleanSl}

\* The values of n_points, clean_threshold given to clean_fiber_group.
CleanNPoints == {2, 3}

CleanThresholds == {[num |-> 5 + 2 * k, den |-> 4] : k \in 1..MaxCleanThr}

\* ------------------------------------------------------------------- state
VARIABLES
  pc,              \* where the caller of the Segment object is
  split,           \* self.split
  resample_np,     \* self.resample_np
  img,             \* self.img
  mapping,         \* self.mapping
  bundle_dict,     \* self.bundle_dict
  include_rois,    \* self.include_rois
  exclude_rois,    \* self.exclude_rois
  warped_prob_map, \* self.warped_prob_map
  streamlines,     \* self.streamlines
  crosses,         \* self.crosses
  fiber_groups,    \* self.fiber_groups
  seg,             \* the segment_sls call, if the last call: argument, locals
  error,           \* the exception that ended the run, "" if none
  clean,           \* the last clean_fiber_group call: arguments and outcome
  splitting,       \* the last split_streamlines call: arguments and outcome
  weights,         \* the last gaussian_weights call: arguments and outcome
  profile,         \* the last calculate_tract_profile call, likewise
  cleaning,        \* a clean_fiber_group call in progress: its locals
  proximity,       \* the last ROI tests of a streamline, likewise
  participant      \* a ParticipantAFQ under construction: its locals

vars == <<pc, split, resample_np, img, mapping, bundle_dict, include_rois,
          exclude_rois, warped_prob_map, streamlines, crosses, fiber_groups,
          seg, error, clean, splitting, weights, profile, cleaning,
          proximity, participant>>

\* Segment(): only the logger is set.
Init ==
  /\ pc = "new"
  /\ split = Unset
  /\ resample_np = Unset
  /\ img = Unset
  /\ mapping = Unset
  /\ bundle_dict = Unset
  /\ include_rois = Unset
  /\ exclude_rois = Unset
  /\ warped_prob_map = Unset
  /\ streamlines = Unset
  /\ crosses = Unset
  /\ fiber_groups = Unset
  /\ seg = Unset
  /\ error = ""
  /\ clean = Unset
  /\ splitting = Unset
  /\ weights = Unset
  /\ profile = Unset
  /\ cleaning = Unset
  /\ proximity = Unset
  /\ participant = Unset

\* Segment.setup(split, resample_np)
Setup ==
  /\ pc = "new"
  /\ \E sp \in BOOLEAN, np \in ResampleNps :
       /\ split' = Some(sp)
       /\ resample_np' = Some(np)
  /\ pc' = "setup"
  /\ UNCHANGED <<proximity, participant,
                 img, mapping, bundle_dict, include_rois, exclude_rois,
                 warped_prob_map, streamlines, crosses, fiber_groups, seg,
                 error, clean, splitting, weights, profile, cleaning>>

\* Segment.segment(fdata, fbval, fbvec, bundle_dict, streamlines, mapping,
\* prob_threshold) with bundle_dict bd and the container sls: prepare_img,
\* prepare_map, create_prob, then self.streamlines, resample, split_sls and
\* segment_sls, up to the first exception.
segment(bd, sls) ==
  /\ \E image \in Images, map \in Mappings, thr \in Thresholds :
       \E prob \in {create_prob(Some(map), bd)} :
       \E resampled \in
            {IF resample_np.val > 0
             THEN Array(resample_bundle(sls, resample_np.val).rows)
             ELSE sls} :
       \E crossed \in
            {IF split.val THEN Some(split_streamlines(resampled.rows, image))
             ELSE crosses} :
       \E r \in {IF prob.error # "" THEN [error |-> prob.error]
                 ELSE segment_sls(resampled, bd, prob.include_rois,
                                  prob.exclude_rois, prob.warped_prob_map,
                                  image, crossed, thr)} :
          /\ img' = Some(image)
          /\ mapping' = Some(map)
          /\ bundle_dict' = Some(bd)
          /\ include_rois' = Some(prob.include_rois)
          /\ exclude_rois' = Some(prob.exclude_rois)
          /\ warped_prob_map' = Some(prob.warped_prob_map)
          /\ IF prob.error # ""
             THEN /\ error' = prob.error
                  /\ pc' = "raised"
                  /\ UNCHANGED <<streamlines, crosses, fiber_groups, seg>>
             ELSE /\ streamlines' = Some(resampled)
                  /\ crosses' = crossed
                  /\ fiber_groups' = IF r.fiber_groups_assigned
                                      THEN Some(r.fiber_groups)
                                      ELSE fiber_groups
                  /\ seg' = Some([given |-> sls.rows,
                                  prob_threshold |-> thr,
                                  fiber_idx |-> r.fiber_idx,
                                  streamlines_in_bundles |->
                                    r.streamlines_in_bundles,
                                  min_dist_coords |-> r.min_dist_coords])
                  /\ error' = r.error
                  /\ pc' = IF r.error = "" THEN "done" ELSE "raised"
  /\ UNCHANGED <<proximity, participant,
                 split, resample_np, clean, splitting, weights, profile,
                 cleaning>>

\* The calls of Segment.segment: any one bundle with one streamline; a
\* bundle of two inclusion ROIs within the first two voxels with any
\* tractogram; 2..MaxBundles bundles without a midline rule, of two
\* inclusion ROIs that hold the first voxel, with any tractogram.  The
\* streamlines are given as a Python list or as a Streamlines.
Segment ==
  /\ pc = "setup"
  /\ \/ \E b \in BundleSpecs, sl \in InputStreamlines :
          \E sls \in {List(<<sl>>), Streamlines(<<sl>>)} : segment(<<b>>, sls)
     \/ \E b \in PairSpecs(NearMasks, CrossMidline), t \in Tractograms :
          \E sls \in {List(t), Streamlines(t)} : segment(<<b>>, sls)
     \/ \E bd \in PairDicts, t \in Tractograms :
          \E sls \in {List(t), Streamlines(t)} : segment(bd, sls)

Next ==
  \/ Setup
  \/ Segment

Spec == Init /\ [][Next]_vars

\* clean_fiber_group(streamlines, n_points, clean_rounds, clean_threshold,
\* min_sl, stat): a function of the module, which reads and writes nothing
\* of a Segment object.  One call is followed.  (The array and its first
\* distances are written once for all the values of the arguments they do
\* not depend on.)
CleanFiberGroup ==
  /\ ~ clean.set
  /\ \E fg \in CleanFiberGroups, n_points \in CleanNPoints, stat \in Stats :
     \E fgarray \in {resample_bundle(Streamlines(fg), n_points).rows} :
     \E g \in {gaussian_weights(fgarray, stat)} :
     \E clean_rounds \in 0..MaxCleanRounds,
        clean_threshold \in CleanThresholds, min_sl \in 1..MaxMinSl :
       clean' = Some([streamlines |-> fg, n_points |-> n_points,
                      clean_rounds |-> clean_rounds,
                      clean_threshold |-> clean_threshold,
                      min_sl |-> min_sl, stat |-> stat,
                      out |-> clean_fiber_group_from(
                                fg, fgarray, g, clean_rounds,
                                clean_threshold, min_sl)])
  /\ UNCHANGED <<proximity, participant,
                 pc, split, resample_np, img, mapping, bundle_dict,
                 include_rois, exclude_rois, warped_prob_map, streamlines,
                 crosses, fiber_groups, seg, error, splitting, weights,
                 profile, cleaning>>

NextClean == CleanFiberGroup

\* clean_fiber_group step by step.  entered is the call up to the loop
\* (lines 555-566) for the arguments args: the guard, which returns at
\* once, or the array fgarray of the resampled streamlines, idx, the
\* first distances g and rounds_elapsed = 0.
entered(args, fgarray, g) ==
  IF too_few(args.streamlines, args.min_sl)
  THEN [args |-> args, at |-> "returned", entered |-> FALSE,
        fgarray |-> << >>, idx |-> << >>, w |-> << >>,
        rounds_elapsed |-> 0, returned |-> args.streamlines]
  ELSE [args |-> args, at |-> IF g.error # "" THEN g.error ELSE "loop",
        entered |-> TRUE, fgarray |-> fgarray,
        idx |-> Tuple([i \in 1..Len(fgarray) |-> i]), w |-> g.w,
        rounds_elapsed |-> 0, returned |-> << >>]

\* The call with its arguments, up to the loop.  (The array and its
\* distances are written once for all the values of the arguments they do
\* not depend on; the guard decides whether the call computes them.)
CleanEnter ==
  /\ ~ cleaning.set
  /\ \E fg \in CleanFiberGroups, n_points \in CleanNPoints, stat \in Stats :
     \E fgarray \in {resample_bundle(Streamlines(fg), n_points).rows} :
     \E g \in {gaussian_weights(fgarray, stat)} :
     \E clean_rounds \in 0..MaxCleanRounds,
        clean_threshold \in CleanThresholds, min_sl \in 1..MaxMinSl :
       cleaning' =
         Some(entered([streamlines |-> fg, n_points |-> n_points,
                       clean_rounds |-> clean_rounds,
                       clean_threshold |-> clean_threshold,
                       min_sl |-> min_sl, stat |-> stat], fgarray, g))
  /\ UNCHANGED <<proximity, participant,
                 pc, split, resample_np, img, mapping, bundle_dict,
                 include_rois, exclude_rois, warped_prob_map, streamlines,
                 crosses, fiber_groups, seg, error, clean, splitting,
                 weights, profile>>

\* The test of the loop at the state of the call in progress.
LoopCondition ==
  loop_condition(cleaning.val.w, cleaning.val.rounds_elapsed,
                 Len(cleaning.val.args.streamlines),
                 cleaning.val.args.clean_rounds,
                 cleaning.val.args.clean_threshold, cleaning.val.args.min_sl)

\* One round of the loop (lines 570-578); gaussian_weights may raise, which
\* ends the call before rounds_elapsed is increased.
CleanRound ==
  /\ cleaning.set
  /\ cleaning.val.at = "loop"
  /\ LoopCondition
  /\ \E idx_belong \in {belong(cleaning.val.w,
                               cleaning.val.args.clean_threshold)} :
     \E fgarray \in {select(cleaning.val.fgarray, idx_belong)} :
     \E g \in {gaussian_weights(fgarray, "mean")} :
       cleaning' =
         Some([cleaning.val EXCEPT
                 !.idx = compose(@, idx_belong),
                 !.fgarray = fgarray,
                 !.w = IF g.error # "" THEN @ ELSE g.w,
                 !.rounds_elapsed = IF g.error # "" THEN @ ELSE @ + 1,
                 !.at = IF g.error # "" THEN g.error ELSE "loop"])
  /\ UNCHANGED <<proximity, participant,
                 pc, split, resample_np, img, mapping, bundle_dict,
                 include_rois, exclude_rois, warped_prob_map, streamlines,
                 crosses, fiber_groups, seg, error, clean, splitting,
                 weights, profile>>

\* The end of the loop and line 581: return streamlines[idx].
CleanReturn ==
  /\ cleaning.set
  /\ cleaning.val.at = "loop"
  /\ ~ LoopCondition
  /\ cleaning' =
       Some([cleaning.val EXCEPT
               !.at = "returned",
               !.returned =
                  Tuple([k \in 1..Len(cleaning.val.idx) |->
                     cleaning.val.args.streamlines[cleaning.val.idx[k]]])])
  /\ UNCHANGED <<proximity, participant,
                 pc, split, resample_np, img, mapping, bundle_dict,
                 include_rois, exclude_rois, warped_prob_map, streamlines,
                 crosses, fiber_groups, seg, error, clean, splitting,
                 weights, profile>>

NextCleaning ==
  \/ CleanEnter
  \/ CleanRound
  \/ CleanReturn

\* The steps of clean_fiber_group.
SpecCleaning == Init /\ [][NextCleaning]_vars

\* The loop of a call from where it is entered: the states that entered
\* gives for the arguments of the call, the fiber groups taken up to the
\* order of their streamlines.
InitLoop ==
  /\ pc = "new"
  /\ split = Unset
  /\ resample_np = Unset
  /\ img = Unset
  /\ mapping = Unset
  /\ bundle_dict = Unset
  /\ include_rois = Unset
  /\ exclude_rois = Unset
  /\ warped_prob_map = Unset
  /\ streamlines = Unset
  /\ crosses = Unset
  /\ fiber_groups = Unset
  /\ seg = Unset
  /\ error = ""
  /\ clean = Unset
  /\ splitting = Unset
  /\ weights = Unset
  /\ profile = Unset
  /\ proximity = Unset
  /\ participant = Unset
  /\ \E fg \in LoopFiberGroups, n_points \in CleanNPoints, stat \in Stats :
     \E fgarray \in {resample_bundle(Streamlines(fg), n_points).rows} :
     \E g \in {gaussian_weights(fgarray, stat)} :
     \E clean_rounds \in 0..MaxCleanRounds,
        clean_threshold \in CleanThresholds, min_sl \in 1..MaxMinSl :
       cleaning =
         Some(entered([streamlines |-> fg, n_points |-> n_points,
                       clean_rounds |-> clean_rounds,
                       clean_threshold |-> clean_threshold,
                       min_sl |-> min_sl, stat |-> stat], fgarray, g))

NextLoop ==
  \/ CleanRound
  \/ CleanReturn

\* The loop with the call going on once begun: the function runs on one
\* thread, which nothing suspends.
FairSpecLoop ==
  InitLoop /\ [][NextLoop]_vars /\ WF_vars(CleanRound) /\ WF_vars(CleanReturn)


\* The calls of clean_fiber_group.
SpecClean == Init /\ [][NextClean]_vars

\* The templates given to split_streamlines, by the voxel coordinate of the
\* world origin.
Templates ==
  {[vox_sq |-> <<1, 1, 1>>, zero_coord |-> <<x, 0, 0>>] : x \in 0..GridMax}

\* split_streamlines(streamlines, template): a function of the module.  One
\* call is followed, on a tractogram or on none.
SplitStreamlines ==
  /\ ~ splitting.set
  /\ \E sls \in Tractograms \cup {<< >>}, template \in Templates :
       splitting' = Some([streamlines |-> sls, template |-> template,
                          out |-> split_streamlines_returned(sls, template)])
  /\ UNCHANGED <<proximity, participant,
                 pc, split, resample_np, img, mapping, bundle_dict,
                 include_rois, exclude_rois, warped_prob_map, streamlines,
                 crosses, fiber_groups, seg, error, clean, weights, profile,
                 cleaning>>

NextSplit == SplitStreamlines

\* The scalar volumes given to calculate_tract_profile: the probability
\* volumes, and the volumes of one value everywhere.
ConstantVolume(c) == [v \in Voxels |-> c]

ProfileVolumes == ProbMaps \cup {ConstantVolume(1), ConstantVolume(7)}

\* The values of n_points given to calculate_tract_profile.
ProfileNPoints == {2, 3, 5}

\* calculate_tract_profile(img, streamlines, n_points=n_points): a function
\* of the module.  One call is followed, on a tractogram (a list) or on the
\* array of its streamlines resampled beforehand to n_array points each.
CalculateTractProfile ==
  /\ ~ profile.set
  /\ \E vol \in ProfileVolumes, t \in Tractograms,
        n_points \in ProfileNPoints, n_array \in {0, 2, 3} :
       \E sls \in {IF n_array = 0 THEN t
                  ELSE resample_bundle(List(t), n_array).rows} :
          profile' = Some([img |-> vol, streamlines |-> sls,
                           is_array |-> n_array # 0, n_points |-> n_points,
                           out |-> calculate_tract_profile(vol, sls,
                                     n_array # 0, n_points)])
  /\ UNCHANGED <<proximity, participant,
                 pc, split, resample_np, img, mapping, bundle_dict,
                 include_rois, exclude_rois, warped_prob_map, streamlines,
                 crosses, fiber_groups, seg, error, clean, splitting,
                 weights, cleaning>>

NextProfile == CalculateTractProfile

\* gaussian_weights(bundle, return_mahalnobis=return_mahalnobis, stat=stat):
\* a function of the module.  One call is followed, on the array of a fiber
\* group resampled to n_points points.
GaussianWeights ==
  /\ ~ weights.set
  /\ \E fg \in CleanFiberGroups \ {<< >>}, n_points \in CleanNPoints,
        stat \in Stats, return_mahalnobis \in BOOLEAN :
       \E bundle \in {resample_bundle(List(fg), n_points).rows} :
          weights' = Some([bundle |-> bundle, stat |-> stat,
                           return_mahalnobis |-> return_mahalnobis,
                           out |-> IF return_mahalnobis
                                   THEN gaussian_weights(bundle, stat)
                                   ELSE gaussian_weights_normalized(bundle,
                                                                    stat)])
  /\ UNCHANGED <<proximity, participant,
                 pc, split, resample_np, img, mapping, bundle_dict,
                 include_rois, exclude_rois, warped_prob_map, streamlines,
                 crosses, fiber_groups, seg, error, clean, splitting,
                 profile, cleaning>>

NextWeights == GaussianWeights

\* The calls of gaussian_weights.
SpecWeights == Init /\ [][NextWeights]_vars

\* The calls of calculate_tract_profile.
SpecProfile == Init /\ [][NextProfile]_vars

\* The calls of split_streamlines.
SpecSplit == Init /\ [][NextSplit]_vars

\* ------------------------------------------------- vocabulary of the claims
Done == pc = "done"

Raised == pc = "raised"

\* segment_sls was given a Streamlines, the container that lines 442 and
\* 490 both take: it raises at line 442 given an ndarray, and at line 490,
\* after the first loop, given a Python list.
GivenStreamlines == seg.set /\ streamlines.val.kind = "Streamlines"

Range(f) == {f[i] : i \in DOMAIN f}

\* The bundles of the run, and the streamlines segment_sls was given.
BundleIdx == 1..Len(bundle_dict.val)

SlIdx == 1..Len(streamlines.val.rows)

\* Streamline number s is in the fiber group of bundle number b.
InGroup(s, b) == s \in Range(seg.val.fiber_idx[BundleNames[b]])

\* The score segment_sls recorded for streamline s and bundle b.
Score(s, b) == seg.val.streamlines_in_bundles[s][b]

\* The mean probability of streamline s in the map of bundle b.
Prob(s, b) ==
  fiber_probabilities(warped_prob_map.val[b], <<streamlines.val.rows[s]>>)[1]

AboveThreshold(s, b) ==
  Prob(s, b).num * seg.val.prob_threshold.den
    > seg.val.prob_threshold.num * Prob(s, b).den

\* Four times the squared distances from the nodes of sl to the coordinates
\* of roi, against four times the tolerance (all times den^2).
NodeDists(sl, roi, i) ==
  {4 * SqDist(sl.pts[i], sl.den, roi[j]) : j \in 1..Len(roi)}

AllDists(sl, roi) == UNION {NodeDists(sl, roi, i) : i \in 1..Len(sl.pts)}

Tol4(sl) == FourTol(img.val) * sl.den * sl.den

\* The least squared distance from sl to roi exceeds the tolerance, is at
\* most the tolerance, is at least the tolerance.
FartherThanTol(sl, roi) == \A d \in AllDists(sl, roi) : d > Tol4(sl)

WithinTol(sl, roi) == \E d \in AllDists(sl, roi) : d <= Tol4(sl)

NotCloserThanTol(sl, roi) == \A d \in AllDists(sl, roi) : d >= Tol4(sl)

\* Every point of sl is within the tolerance of roi.
EveryPointWithinTol(sl, roi) ==
  \A i \in 1..Len(sl.pts) : \E d \in NodeDists(sl, roi, i) : d <= Tol4(sl)

\* Streamline s satisfies the inclusion ROIs and the exclusion ROIs of b.
NearInclusionRois(s, b) ==
  \A k \in 1..Len(include_rois.val[b]) :
     WithinTol(streamlines.val.rows[s], include_rois.val[b][k])

AwayFromExclusionRois(s, b) ==
  \A k \in 1..Len(exclude_rois.val[b]) :
     NotCloserThanTol(streamlines.val.rows[s], exclude_rois.val[b][k])

\* The midline classification of streamline s is known and disagrees with
\* the rule of bundle b; the midline gate lets s through.
MidlineDisagrees(s, b) ==
  /\ crosses.set
  /\ \/ crosses.val[s] /\ bundle_dict.val[b].cross_midline = "False"
     \/ ~ crosses.val[s] /\ bundle_dict.val[b].cross_midline = "True"

MidlineAgrees(s, b) ==
  \/ bundle_dict.val[b].cross_midline = "None"
  \/ crosses.set /\ ~ MidlineDisagrees(s, b)

\* Every fiber group holds the streamlines chosen for it, in their order,
\* each as given or reversed.
GroupsHoldTheChosen ==
  \A b \in BundleIdx :
     LET idx == seg.val.fiber_idx[BundleNames[b]]
         group == fiber_groups.val[BundleNames[b]]
     IN /\ Len(group) = Len(idx)
        /\ \A i \in 1..Len(idx) :
              /\ group[i].den = streamlines.val.rows[idx[i]].den
              /\ \/ group[i].pts = streamlines.val.rows[idx[i]].pts
                 \/ group[i].pts = Reverse(streamlines.val.rows[idx[i]].pts)

\* ------------------------------------------------------------------ claims
\* C1: after segment_sls every streamline it was given appears at most once
\* in all the fiber groups together, the groups holding exactly the chosen
\* streamlines; a streamline scored by several bundles is in one group.
C1_AtMostOneGroup ==
  Done =>
    /\ GroupsHoldTheChosen
    /\ \A s \in SlIdx :
         /\ Cardinality({b \in BundleIdx : InGroup(s, b)}) <= 1
         /\ \A b \in BundleIdx :
              LET idx == seg.val.fiber_idx[BundleNames[b]]
              IN Cardinality({i \in 1..Len(idx) : idx[i] = s}) <= 1
         /\ Cardinality({b \in BundleIdx : Score(s, b) > 0}) >= 2
              => Cardinality({b \in BundleIdx : InGroup(s, b)}) = 1

\* A streamline scored by two bundles has been placed, and another
\* streamline of the run is in the other group.
C1_Witness ==
  /\ Done
  /\ \E s \in SlIdx :
       /\ Cardinality({b \in BundleIdx : Score(s, b) > 0}) >= 2
       /\ \E b \in BundleIdx : InGroup(s, b)
  /\ \A b \in BundleIdx : \E s \in SlIdx : InGroup(s, b)
  /\ Len(bundle_dict.val) >= 2

\* C2: a streamline whose least squared distance to some inclusion ROI of a
\* bundle exceeds the tolerance is not in that bundle's fiber group.
C2_FarFromInclusionRoi ==
  Done =>
    \A b \in BundleIdx : \A s \in SlIdx :
       (\E k \in 1..Len(include_rois.val[b]) :
           FartherThanTol(streamlines.val.rows[s], include_rois.val[b][k]))
         => ~ InGroup(s, b)

\* A streamline above the probability threshold, close to one inclusion ROI
\* of the bundle and too far from another, has been left out.
C2_Witness ==
  /\ Done
  /\ \E b \in BundleIdx : \E s \in SlIdx :
       /\ AboveThreshold(s, b)
       /\ \E k \in 1..Len(include_rois.val[b]) :
            FartherThanTol(streamlines.val.rows[s], include_rois.val[b][k])
       /\ \E k \in 1..Len(include_rois.val[b]) :
            WithinTol(streamlines.val.rows[s], include_rois.val[b][k])
       /\ ~ InGroup(s, b)

\* C3 as stated: a streamline every point of which is within the tolerance
\* of every inclusion ROI of a bundle and not within the tolerance of any of
\* its exclusion ROIs, with probability above the threshold, is in that
\* bundle's fiber group, whatever the other bundles.
C3_AssignedWhenTestsPass ==
  Done =>
    \A b \in BundleIdx : \A s \in SlIdx :
       (/\ AboveThreshold(s, b)
        /\ \A k \in 1..Len(include_rois.val[b]) :
             EveryPointWithinTol(streamlines.val.rows[s], include_rois.val[b][k])
        /\ AwayFromExclusionRois(s, b))
         => InGroup(s, b)

\* C3, amended: a streamline that passes the tests of a bundle (probability
\* above the threshold, midline classification not against the rule, least
\* distance to every inclusion ROI at most the tolerance and to every
\* exclusion ROI at least the tolerance) is scored with its probability, and
\* is in the bundle's fiber group when that score is positive and no other
\* bundle scored it higher, or as high with a lower index.
C3_AssignedWhenBest ==
  Done =>
    \A b \in BundleIdx : \A s \in SlIdx :
       (/\ AboveThreshold(s, b)
        /\ MidlineAgrees(s, b)
        /\ NearInclusionRois(s, b)
        /\ AwayFromExclusionRois(s, b))
         => /\ Score(s, b) = Prob(s, b).num
            /\ (/\ Prob(s, b).num > 0
                /\ \A b2 \in BundleIdx \ {b} :
                     \/ Score(s, b2) < Score(s, b)
                     \/ Score(s, b2) = Score(s, b) /\ b2 > b)
                 => InGroup(s, b)

\* A streamline has been assigned to a bundle that has an exclusion ROI, a
\* midline rule and a probability map, under a positive threshold.
C3_Witness ==
  /\ Done
  /\ seg.val.prob_threshold.num > 0
  /\ \E b \in BundleIdx : \E s \in SlIdx :
       /\ InGroup(s, b)
       /\ Len(exclude_rois.val[b]) >= 1
       /\ bundle_dict.val[b].cross_midline # "None"
       /\ bundle_dict.val[b].prob_map.set

\* C4: a streamline whose mean probability for a bundle is at most
\* prob_threshold is not in that bundle's fiber group; a bundle whose
\* probability map is zero everywhere gets no streamline under threshold 0.
C4_ProbabilityGate ==
  Done =>
    /\ \A b \in BundleIdx : \A s \in SlIdx :
          ~ AboveThreshold(s, b) => ~ InGroup(s, b)
    /\ \A b \in BundleIdx :
          (/\ bundle_dict.val[b].prob_map = Some([v \in Voxels |-> 0])
           /\ seg.val.prob_threshold.num = 0)
            => fiber_groups.val[BundleNames[b]] = << >>

\* A streamline of positive probability, not above the threshold, that
\* satisfies the midline rule and the ROIs of a bundle, has been left out.
C4_Witness ==
  /\ Done
  /\ \E b \in BundleIdx : \E s \in SlIdx :
       /\ ~ AboveThreshold(s, b)
       /\ Prob(s, b).num > 0
       /\ MidlineAgrees(s, b)
       /\ Len(include_rois.val[b]) >= 2
       /\ NearInclusionRois(s, b)
       /\ AwayFromExclusionRois(s, b)
       /\ ~ InGroup(s, b)

\* C5: a streamline whose midline classification disagrees with the rule of
\* a bundle (crossing under cross_midline False, not crossing under
\* cross_midline True) is not in that bundle's fiber group.
C5_MidlineRule ==
  Done =>
    \A b \in BundleIdx : \A s \in SlIdx :
       MidlineDisagrees(s, b) => ~ InGroup(s, b)

\* C6: a streamline with a nonzero score is in the fiber group of the first
\* bundle of greatest score and in no other; a streamline with zero score
\* for every bundle is in no fiber group.
C6_ArgmaxLowestIndex ==
  Done =>
    \A s \in SlIdx :
       IF \A b \in BundleIdx : Score(s, b) = 0
       THEN \A b \in BundleIdx : ~ InGroup(s, b)
       ELSE \A b \in BundleIdx :
              InGroup(s, b) <=>
                /\ \A b2 \in BundleIdx : Score(s, b2) <= Score(s, b)
                /\ \A b2 \in 1..(b - 1) : Score(s, b2) < Score(s, b)

\* Two bundles tie for the greatest score of a streamline, which is in the
\* group of the first one.
C6_Witness ==
  /\ Done
  /\ \E s \in SlIdx : \E b1 \in BundleIdx : \E b2 \in BundleIdx :
       /\ b1 < b2
       /\ Score(s, b1) > 0
       /\ Score(s, b1) = Score(s, b2)
       /\ InGroup(s, b1)

\* The nodes (from 1) of sl that are closest to the ROI of coordinates roi.
ClosestNodes(sl, roi) ==
  {i \in 1..Len(sl.pts) :
     \A d \in AllDists(sl, roi) :
        \E d2 \in NodeDists(sl, roi, i) : d2 <= d}

\* C7: every streamline of a fiber group, as output, has a closest-approach
\* node to the first inclusion ROI that comes no later than a
\* closest-approach node to the second.
C7_Orientation ==
  Done =>
    \A b \in BundleIdx :
       \A i \in 1..Len(fiber_groups.val[BundleNames[b]]) :
          LET g == fiber_groups.val[BundleNames[b]][i]
          IN \E i0 \in ClosestNodes(g, include_rois.val[b][1]) :
             \E i1 \in ClosestNodes(g, include_rois.val[b][2]) : i0 <= i1

\* C8: after segment_sls fiber_groups has an entry for every bundle of
\* bundle_dict and no other, the entry of a bundle that was chosen for no
\* streamline being empty; and segment_sls given a Streamlines raises only
\* while it tests a streamline that is above the probability threshold of
\* a bundle, so that a run that leaves every group empty for want of such
\* a streamline ends normally.
C8_EntryForEveryBundle ==
  /\ Done =>
       /\ DOMAIN fiber_groups.val = {BundleNames[b] : b \in BundleIdx}
       /\ \A b \in BundleIdx :
             (\A s \in SlIdx :
                 \/ \A b2 \in BundleIdx : Score(s, b2) = 0
                 \/ \E b2 \in BundleIdx \ {b} :
                      \/ Score(s, b2) > Score(s, b)
                      \/ Score(s, b2) = Score(s, b) /\ b2 < b)
               => fiber_groups.val[BundleNames[b]] = << >>
  /\ (Raised /\ GivenStreamlines) =>
       \E b \in BundleIdx : \E s \in SlIdx : AboveThreshold(s, b)

\* A run of two bundles has ended with one group empty and the other not.
C8_Witness ==
  /\ Done
  /\ \E b \in BundleIdx : fiber_groups.val[BundleNames[b]] = << >>
  /\ \E b \in BundleIdx : fiber_groups.val[BundleNames[b]] # << >>

\* C9: a streamline of a Streamlines that passes the probability and
\* midline gates of a bundle with fewer than two inclusion ROIs, or with
\* no exclusion ROI, and satisfies the ROIs the bundle has, is scored for
\* the bundle, and the segmentation ends normally.
C9_VacuousRoiLists ==
  ((Done \/ Raised) /\ GivenStreamlines) =>
    \A b \in BundleIdx : \A s \in SlIdx :
       (/\ \/ Len(include_rois.val[b]) < 2
           \/ Len(exclude_rois.val[b]) = 0
        /\ AboveThreshold(s, b)
        /\ MidlineAgrees(s, b)
        /\ NearInclusionRois(s, b)
        /\ AwayFromExclusionRois(s, b))
         => /\ Done
            /\ Score(s, b) = Prob(s, b).num

\* C10: clean_fiber_group given fewer than min_sl streamlines returns them
\* as they are, the same streamlines in the same order, without resampling
\* them and without computing a distance, whatever its other arguments.
C10_NoOpBelowMinSl ==
  (clean.set /\ Len(clean.val.streamlines) < clean.val.min_sl) =>
    /\ clean.val.out.error = ""
    /\ clean.val.out.returned = clean.val.streamlines
    /\ ~ clean.val.out.resampled
    /\ clean.val.out.weights_calls = 0
    /\ clean.val.out.rounds_elapsed = 0

\* Two streamlines or more, fewer than min_sl, have been returned as they
\* are, which clean_fiber_group with min_sl their number would not have
\* done.
C10_Witness ==
  /\ clean.set
  /\ Len(clean.val.streamlines) >= 2
  /\ Len(clean.val.streamlines) < clean.val.min_sl
  /\ clean.val.out.returned = clean.val.streamlines
  /\ clean_fiber_group(clean.val.streamlines, clean.val.n_points,
                       clean.val.clean_rounds, clean.val.clean_threshold,
                       Len(clean.val.streamlines), clean.val.stat).error # ""

\* C20: for a streamline scored for a bundle (it has passed every gate),
\* the node index kept for each of the first two inclusion ROIs is a node
\* of closest approach to the ROI as a whole: no node of the streamline is
\* closer to any coordinate of the ROI.
C20_ClosestApproachToRoi ==
  Done =>
    \A b \in BundleIdx : \A s \in SlIdx :
       Score(s, b) > 0 =>
         \A k \in 1..2 :
            (seg.val.min_dist_coords[s][b][k] + 1)
              \in ClosestNodes(streamlines.val.rows[s], include_rois.val[b][k])

\* The streamline sl, or sl with its points in reversed order.
UpToReversal(g, sl) ==
  \/ g = sl
  \/ g = [den |-> sl.den, pts |-> Tuple(Reverse(sl.pts))]

\* The output streamlines: bundle number b and place i in its fiber group.
Outputs ==
  {p \in BundleIdx \X (1..MaxSl) :
     p[2] <= Len(fiber_groups.val[BundleNames[p[1]]])}

Output(p) == fiber_groups.val[BundleNames[p[1]]][p[2]]

\* The (numbered from 1) streamline of the caller that was chosen for
\* output p.
Chosen(p) == seg.val.fiber_idx[BundleNames[p[1]]][p[2]]

\* C17: whatever was given to setup, the streamlines the object holds after
\* Segment.segment are the caller's, not their resampling, and every
\* streamline of an output fiber group is the caller's streamline it was
\* chosen from, with its own points in the original or in the reversed
\* order.
C17_InputIsTheRecord ==
  (pc \in {"done", "raised"} /\ seg.set) =>
    /\ streamlines.val.rows = seg.val.given
    /\ Done =>
         \A p \in Outputs :
            UpToReversal(Output(p), seg.val.given[Chosen(p)])

\* The x coordinates of the points of a streamline, times its denominator.
Xs(sl) == {sl.pts[k][1] : k \in 1..Len(sl.pts)}

\* C16: split_streamlines returns the streamlines it was given, as many, in
\* the same order, with the same points, and one boolean for each, true
\* exactly when the streamline has a point strictly above and a point
\* strictly below the midline coordinate; a streamline that only reaches
\* the midline coordinate is not crossing.
C16_ClassifiesOnly ==
  splitting.set =>
    LET given == splitting.val.streamlines
        out == splitting.val.out
        zx == splitting.val.template.zero_coord[1]
    IN /\ out.streamlines = given
       /\ Len(out.crosses) = Len(given)
       /\ \A i \in 1..Len(given) :
             out.crosses[i] <=>
               /\ SetMax(Xs(given[i])) > zx * given[i].den
               /\ SetMin(Xs(given[i])) < zx * given[i].den

\* A call on two streamlines: the first ends on the midline coordinate and
\* is not crossing, the second goes through it and is crossing.
C16_Witness ==
  /\ splitting.set
  /\ Len(splitting.val.streamlines) = 2
  /\ LET given == splitting.val.streamlines
         zx == splitting.val.template.zero_coord[1]
     IN /\ zx * given[1].den \in Xs(given[1])
        /\ SetMin(Xs(given[1])) = zx * given[1].den
        /\ splitting.val.out.crosses = <<FALSE, TRUE>>

\* The array calculate_tract_profile samples the volume along.
ProfileArray ==
  IF profile.val.is_array THEN profile.val.streamlines
  ELSE Tuple([i \in 1..Len(profile.val.streamlines) |->
          Normalize(ResampleOne(profile.val.streamlines[i],
                                profile.val.n_points))])

\* The value of the volume vol at node number node of the row fg, times
\* fg.den^3.
Sampled(vol, fg, node) == InterpAt(vol, fg.pts[node], fg.den)

\* C15: without weights the profile has, at every node, the arithmetic mean
\* over the streamlines of the values sampled at that node (their sum is
\* count times the profile); on a volume of one value everywhere the
\* profile is that value at every node, whatever the streamlines and their
\* number.
C15_UniformProfile ==
  profile.set =>
    LET fg == ProfileArray
        n == Len(fg)
        out == profile.val.out
        D == CommonDen(fg)
        D3 == D * D * D
        scaled(i, node) ==
          LET k == D \div fg[i].den
          IN Sampled(profile.val.img, fg[i], node) * k * k * k
    IN /\ Len(out) = Len(fg[1].pts)
       /\ \A node \in 1..Len(out) :
             /\ out[node].num * n * D3
                  = out[node].den
                      * SumFn([i \in 1..n |-> scaled(i, node)], 1, n)
             /\ \A c \in 0..7 :
                   profile.val.img = [v \in Voxels |-> c]
                     => out[node] = [num |-> c, den |-> 1]

\* The profile of two streamlines of different points, given as a list, on
\* the volume that is 7 everywhere is 7 at each of five nodes.
C15_Witness ==
  /\ profile.set
  /\ ~ profile.val.is_array
  /\ Len(profile.val.streamlines) = 2
  /\ profile.val.streamlines[1] # profile.val.streamlines[2]
  /\ Len(profile.val.streamlines[1].pts) # Len(profile.val.streamlines[2].pts)
  /\ profile.val.img = [v \in Voxels |-> 7]
  /\ profile.val.out = <<[num |-> 7, den |-> 1], [num |-> 7, den |-> 1],
                         [num |-> 7, den |-> 1], [num |-> 7, den |-> 1],
                         [num |-> 7, den |-> 1]>>

\* The weights of the streamlines at a node sum to 1: every weight is the
\* share of the reciprocal distance of its streamline in one and the same
\* sum, the sum of these reciprocals.
SumsToOne(w, node) ==
  LET terms == Tuple([fn \in 1..Len(w) |->
                        IF w[fn][node].kind = "share" THEN w[fn][node].sq
                        ELSE 0])
  IN \A fn \in 1..Len(w) :
        /\ w[fn][node].kind = "share"
        /\ w[fn][node].terms = terms

\* C14: the weights that gaussian_weights returns without return_mahalnobis
\* for two streamlines or more sum to 1 over the streamlines at every
\* node, also when a streamline is at distance 0 from the statistic of a
\* node.
C14_WeightsSumToOne ==
  (/\ weights.set
   /\ ~ weights.val.return_mahalnobis
   /\ Len(weights.val.bundle) >= 2
   /\ weights.val.out.error = "") =>
     \A node \in 1..Len(weights.val.out.w[1]) :
        SumsToOne(weights.val.out.w, node)

\* ------------------------------------------------ clean_fiber_group, by steps
\* The call in progress and what it was given.
Call == cleaning.val

Given == cleaning.val.args.streamlines

\* The call has returned after going through the loop.
ReturnedFromLoop ==
  /\ cleaning.set
  /\ cleaning.val.at = "returned"
  /\ cleaning.val.entered

\* C11: the result of clean_fiber_group is a sub-sequence of the
\* streamlines given, as given (not resampled), in their order and none
\* twice, never longer than the input: after any number of rounds idx holds
\* strictly increasing positions in the input, the rows of fgarray are the
\* resampled streamlines at those positions, and what is returned is the
\* streamlines at idx (the input itself when the guard returns at once).
C11_SubsequenceOfInput ==
  cleaning.set =>
    /\ Call.entered =>
         /\ Len(Call.fgarray) = Len(Call.idx)
         /\ \A k \in 1..Len(Call.idx) :
              /\ Call.idx[k] \in 1..Len(Given)
              /\ k > 1 => Call.idx[k - 1] < Call.idx[k]
              /\ Call.fgarray[k] =
                   Normalize(ResampleOne(Given[Call.idx[k]],
                                         Call.args.n_points))
    /\ Call.at = "returned" =>
         /\ Len(Call.returned) <= Len(Given)
         /\ IF Call.entered
            THEN Call.returned =
                   Tuple([k \in 1..Len(Call.idx) |-> Given[Call.idx[k]]])
            ELSE Call.returned = Given

\* Two rounds have removed streamlines, the second one a streamline that
\* was not at the same position in the input as in the array of the round,
\* and streamlines that were resampled to other points are returned.
C11_Witness ==
  /\ ReturnedFromLoop
  /\ Call.rounds_elapsed = 2
  /\ Len(Call.returned) = 3
  /\ Len(Given) = 5
  /\ Call.idx[3] = 5
  /\ Call.idx[2] = 3
  /\ Given[4] # Given[5]

\* C12: for an input of more than min_sl streamlines, no round of the loop
\* is run on a working set (the rows of fgarray) of min_sl streamlines or
\* fewer.
C12_NoRoundAtOrBelowMinSl ==
  [][CleanRound =>
       (Len(Given) > Call.args.min_sl =>
          Len(Call.fgarray) > Call.args.min_sl)]_vars

\* Every distance of the array w is smaller than clean_threshold.
AllLess(w) ==
  \A fn \in 1..Len(w) : \A node \in 1..Len(w[fn]) :
     less(w[fn][node], Call.args.clean_threshold)

\* C13 as stated: when clean_fiber_group has gone past its guard, every
\* streamline returned has, among the streamlines returned, a distance
\* smaller than clean_threshold at every node.
C13_ReturnedAllBelow ==
  ReturnedFromLoop => AllLess(Call.w)

\* C13, amended: a round keeps exactly the streamlines whose distances,
\* among the streamlines that entered the round, are smaller than
\* clean_threshold at every node; and when the call returns with fewer
\* than clean_rounds rounds run on an input of more than min_sl
\* streamlines, no distance among the streamlines returned is greater than
\* clean_threshold.
C13_KeptWereBelow ==
  [][/\ CleanRound =>
          \A fn \in 1..Len(Call.idx) :
             (\E k \in 1..Len(cleaning'.val.idx) :
                 cleaning'.val.idx[k] = Call.idx[fn])
               <=> (\A node \in 1..Len(Call.w[fn]) :
                       less(Call.w[fn][node], Call.args.clean_threshold))
     /\ CleanReturn =>
          /\ cleaning'.val.returned =
               Tuple([k \in 1..Len(Call.idx) |-> Given[Call.idx[k]]])
          /\ (/\ Call.rounds_elapsed < Call.args.clean_rounds
              /\ Len(Given) > Call.args.min_sl)
               => ~ any_greater(Call.w, Call.args.clean_threshold)]_vars

\* A round has removed a streamline that was over the threshold at one of
\* its nodes only, another round was allowed, and the streamlines returned,
\* more than one, are under the threshold at every node.
C13_Witness ==
  /\ ReturnedFromLoop
  /\ Call.rounds_elapsed = 1
  /\ Call.args.clean_rounds = 2
  /\ Len(Given) > Call.args.min_sl
  /\ Len(Call.returned) >= 2
  /\ Len(Call.returned) < Len(Given)
  /\ AllLess(Call.w)
  /\ \E fn \in 1..Len(Given) :
       LET first == gaussian_weights(
                      resample_bundle(Streamlines(Given),
                                      Call.args.n_points).rows,
                      Call.args.stat).w[fn]
       IN /\ \A k \in 1..Len(Call.idx) : Call.idx[k] # fn
          /\ \E node \in 1..Len(first) :
               less(first[node], Call.args.clean_threshold)

\* The call has ended: it has returned, or gaussian_weights has raised.
Ended == cleaning.set /\ Call.at \in {"returned", "LinAlgError"}

\* C18: clean_fiber_group ends, after at most clean_rounds rounds: a round
\* is run only while some distance exceeds clean_threshold and fewer than
\* clean_rounds rounds have elapsed, every round completed adds exactly one
\* to rounds_elapsed, and a call begun comes to its end (it returns, or
\* np.linalg.inv raises in gaussian_weights).
C18_EndsWithinCleanRounds ==
  /\ [](cleaning.set => Call.rounds_elapsed <= Call.args.clean_rounds)
  /\ [][CleanRound =>
          /\ any_greater(Call.w, Call.args.clean_threshold)
          /\ Call.rounds_elapsed < Call.args.clean_rounds
          /\ cleaning'.val.rounds_elapsed =
               IF cleaning'.val.at = "loop" THEN Call.rounds_elapsed + 1
               ELSE Call.rounds_elapsed]_vars
  /\ (cleaning.set ~> Ended)

\* The call has returned because clean_rounds rounds were run, a distance
\* being still over the threshold.
C18_Witness ==
  /\ ReturnedFromLoop
  /\ Call.args.clean_rounds >= 1
  /\ Call.rounds_elapsed = Call.args.clean_rounds
  /\ Len(Given) > Call.args.min_sl
  /\ any_greater(Call.w, Call.args.clean_threshold)

\* C19: in every round the distances are computed anew over the rows that
\* are left, with the statistic stat of the caller, the one of the first
\* distances: once a round has been run, whenever the call is in its loop
\* or has returned from it, w is what gaussian_weights gives for the rows
\* of fgarray and stat.
C19_StatOfTheCaller ==
  (/\ cleaning.set
   /\ Call.entered
   /\ Call.at \in {"loop", "returned"}
   /\ Call.rounds_elapsed >= 1) =>
     Call.w = gaussian_weights(Call.fgarray, Call.args.stat).w

\* ------------------------------------------------------------ the ROI tests
\* The images of the ROI tests: voxels of edges 1, 1, 1 and of edges 1, 2, 2.
\* dist_to_corner(affine)**2 is computed in floating point: for edges
\* 1, 2, 2 it is 2.25 exactly; for edges 1, 1, 1 it is within one unit in
\* the last place of 0.75, which no squared distance below is, so that every
\* comparison decides as with the exact value.
ProximityImages ==
  {[vox_sq |-> <<1, e, e>>, zero_coord |-> <<1, 0, 0>>] : e \in {1, 4}}

\* Streamlines of two points on the line, at half voxels.
ProximityStreamlines ==
  {[den |-> 2, pts |-> <<<<a, 0, 0>>, <<b, 0, 0>>>>] :
     a \in 0..(2 * GridMax), b \in 0..(2 * GridMax)}

\* Lists of 0..MaxInc ROIs, by their coordinates.
ProximityRois ==
  UNION {[1..n -> {mask_coords(m) : m \in Masks}] : n \in 0..MaxInc}

\* _check_sl_with_inclusion(sl, rois, tol) and
\* _check_sl_with_exclusion(sl, rois, tol) of one streamline with one list
\* of ROIs and the tolerance of one image, as segment_sls calls them
\* (lines 451, 473-478).  One pair of calls is followed.
RoiTests ==
  /\ ~ proximity.set
  /\ \E image \in ProximityImages, sl \in ProximityStreamlines,
        rois \in ProximityRois :
       proximity' =
         Some([sl |-> sl, rois |-> rois, four_tol |-> FourTol(image),
               inclusion |-> check_sl_with_inclusion(sl, rois, FourTol(image)),
               exclusion |->
                 check_sl_with_exclusion(sl, rois, FourTol(image))])
  /\ UNCHANGED <<pc, split, resample_np, img, mapping, bundle_dict,
                 include_rois, exclude_rois, warped_prob_map, streamlines,
                 crosses, fiber_groups, seg, error, clean, splitting, weights,
                 profile, cleaning, participant>>

NextProximity == RoiTests

SpecProximity == Init /\ [][NextProximity]_vars

\* The least squared distance from sl to roi is strictly below the
\* tolerance, equals the tolerance (both times 4 den^2).
StrictlyBelowTol(sl, roi, four_tol) ==
  \E d \in AllDists(sl, roi) : d < four_tol * sl.den * sl.den

AtTol(sl, roi, four_tol) ==
  /\ ~ StrictlyBelowTol(sl, roi, four_tol)
  /\ \E d \in AllDists(sl, roi) : d = four_tol * sl.den * sl.den

\* C21: both tests use one proximity predicate, "the least squared distance
\* from the streamline to the coordinates of the ROI is strictly below the
\* tolerance": the inclusion test passes exactly when the streamline
\* touches every ROI in this sense, the exclusion test exactly when it
\* touches none; a streamline at exactly the tolerance from a ROI does not
\* satisfy it as an inclusion ROI and is not rejected by it as an exclusion
\* ROI.
C21_OneStrictPredicate ==
  proximity.set =>
    LET p == proximity.val
        touches(k) == StrictlyBelowTol(p.sl, p.rois[k], p.four_tol)
    IN /\ p.inclusion.is_close <=> \A k \in 1..Len(p.rois) : touches(k)
       /\ p.exclusion.is_far <=> \A k \in 1..Len(p.rois) : ~ touches(k)

\* A streamline at exactly the tolerance from its one ROI.
C21_AtTolerance ==
  /\ proximity.set
  /\ Len(proximity.val.rois) = 1
  /\ AtTol(proximity.val.sl, proximity.val.rois[1], proximity.val.four_tol)

\* C22: when the midline classification was never computed (setup with
\* split = False, so that segment does not call split_sls), a run with a
\* bundle whose cross_midline rule is True or False does not fail on the
\* missing classification: the midline check is skipped.
C22_CompletesWithoutClassification ==
  /\ pc \in {"done", "raised"}
  /\ ~ split.val
  /\ \E b \in 1..Len(bundle_dict.val) :
        bundle_dict.val[b].cross_midline # "None"
  => error # "AttributeError"

\* ------------------------------------------- the methods, called one by one
\* The tractograms and the bundles of the calls followed below: 1..MaxSl
\* streamlines, each one from voxel 0 to voxel 1 or on to voxel 2 (across
\* the midline of Images, at x = 1); one bundle of two inclusion ROIs on
\* voxel 1, which every streamline touches, without a probability map.
CallStreamlines ==
  {sl \in InputStreamlines :
     \A i \in 1..Len(sl.pts) : sl.pts[i] = <<i - 1, 0, 0>>}

CallTractograms == UNION {[1..n -> CallStreamlines] : n \in 1..MaxSl}

CallBundles ==
  {b \in PairSpecs({{<<1, 0, 0>>}}, CrossMidline) : ~ b.prob_map.set}

\* The calls followed are those on an object that has been set up, up to an
\* exception of prepare_map or create_prob; Preparing are those before the
\* object is given streamlines.
Preparing == split.set /\ pc # "prepare raised" /\ ~ streamlines.set

\* Segment.segment with one bundle and a tractogram of the calls, the first
\* call that gives the object streamlines.
SegmentCall ==
  /\ Preparing
  /\ \E b \in CallBundles, t \in CallTractograms :
       \E sls \in {List(t), Streamlines(t)} : segment(<<b>>, sls)

\* Segment.prepare_img(fdata, fbval, fbvec, b0_threshold): self.img, and
\* with it self.fdata, self.fbval and self.fbvec, which only prepare_map
\* reads.
PrepareImg ==
  /\ Preparing
  /\ \E image \in Images : img' = Some(image)
  /\ pc' = "prepared"
  /\ error' = ""
  /\ UNCHANGED <<split, resample_np, mapping, bundle_dict, include_rois,
                 exclude_rois, warped_prob_map, streamlines, crosses,
                 fiber_groups, seg, clean, splitting, weights, profile,
                 cleaning, proximity, participant>>

\* Segment.prepare_map(mapping, reg_prealign, reg_template): a mapping
\* object is assigned as it is; None is registered from self.fdata,
\* self.fbval and self.fbvec, and a file name or an image is read with
\* self.img, all of them attributes that prepare_img assigns.
PrepareMap ==
  /\ Preparing
  /\ \E given \in {"None", "str", "DiffeomorphicMap"}, map \in Mappings :
       IF given # "DiffeomorphicMap" /\ ~ img.set
       THEN /\ UNCHANGED mapping
            /\ pc' = "prepare raised"
            /\ error' = "AttributeError"
       ELSE /\ mapping' = Some(map)
            /\ pc' = "prepared"
            /\ error' = ""
  /\ UNCHANGED <<split, resample_np, img, bundle_dict, include_rois,
                 exclude_rois, warped_prob_map, streamlines, crosses,
                 fiber_groups, seg, clean, splitting, weights, profile,
                 cleaning, proximity, participant>>

\* Segment.create_prob(bundle_dict) with one bundle of the calls:
\* self.bundle_dict and the three lists, as far as they were filled.
CreateProb ==
  /\ Preparing
  /\ \E b \in CallBundles :
     \E prob \in {create_prob(mapping, <<b>>)} :
       /\ bundle_dict' = Some(<<b>>)
       /\ include_rois' = Some(prob.include_rois)
       /\ exclude_rois' = Some(prob.exclude_rois)
       /\ warped_prob_map' = Some(prob.warped_prob_map)
       /\ error' = prob.error
       /\ pc' = IF prob.error = "" THEN "prepared" ELSE "prepare raised"
  /\ UNCHANGED <<split, resample_np, img, mapping, streamlines, crosses,
                 fiber_groups, seg, clean, splitting, weights, profile,
                 cleaning, proximity, participant>>

\* The optional argument streamlines of a method: not given (None), a list
\* of streamlines, or the ndarray of streamlines of equally many points.
StreamlinesArgs ==
  {Unset}
    \cup {Some(List(t)) : t \in CallTractograms}
    \cup {Some(Array(t)) :
            t \in {u \in CallTractograms :
                     \A i \in 1..Len(u) : Len(u[i].pts) = Len(u[1].pts)}}

\* "if streamlines == None" (lines 396, 414, 436): the comparison of an
\* ndarray is elementwise, and the truth value of its result is an error.
equals_none_error(arg) ==
  IF arg.set /\ arg.val.kind = "ndarray" THEN "ValueError" ELSE ""

\* What the argument stands for: None is "the previously given
\* streamlines", self.streamlines.
given_or_stored(arg) == IF arg.set THEN arg.val ELSE streamlines.val

\* Segment.resample(nb_points, streamlines=arg), on an object that has
\* streamlines.
Resample ==
  /\ streamlines.set
  /\ \E nb_points \in ResampleNps \ {0}, arg \in StreamlinesArgs :
     \E r \in {IF equals_none_error(arg) # ""
                THEN [error |-> equals_none_error(arg)]
                ELSE resample_bundle(given_or_stored(arg), nb_points)} :
       IF r.error # ""
       THEN /\ UNCHANGED streamlines
            /\ pc' = "resample raised"
            /\ error' = r.error
       ELSE /\ streamlines' = Some(Array(r.rows))
            /\ pc' = "resampled"
            /\ error' = ""
  /\ seg' = Unset
  /\ UNCHANGED <<split, resample_np, img, mapping, bundle_dict, include_rois,
                 exclude_rois, warped_prob_map, crosses, fiber_groups,
                 clean, splitting, weights, profile, cleaning, proximity,
                 participant>>

\* Segment.split_sls(streamlines=arg), on an object that has an image and,
\* unless they are given, streamlines: self.streamlines and self.crosses
\* are assigned together, from split_streamlines.
SplitSls ==
  /\ split.set
  /\ pc # "prepare raised"
  /\ img.set
  /\ \E arg \in {a \in StreamlinesArgs : a.set \/ streamlines.set} :
       IF equals_none_error(arg) # ""
       THEN /\ UNCHANGED <<streamlines, crosses>>
            /\ pc' = "split raised"
            /\ error' = equals_none_error(arg)
       ELSE \E sls \in {given_or_stored(arg)} :
            \E r \in {split_streamlines_returned(sls.rows, img.val)} :
              /\ streamlines' = Some([sls EXCEPT !.rows = r.streamlines])
              /\ crosses' = Some(r.crosses)
              /\ pc' = "split"
              /\ error' = ""
  /\ seg' = Unset
  /\ UNCHANGED <<split, resample_np, img, mapping, bundle_dict, include_rois,
                 exclude_rois, warped_prob_map, fiber_groups, clean,
                 splitting, weights, profile, cleaning, proximity,
                 participant>>

\* Segment.segment_sls(streamlines=arg, prob_threshold=thr), on an object
\* that has an image, the lists of create_prob and, unless they are given,
\* streamlines: the argument, if given, becomes self.streamlines (lines
\* 436-439); self.crosses is read as it is.
SegmentSls ==
  /\ split.set
  /\ pc # "prepare raised"
  /\ img.set
  /\ warped_prob_map.set
  /\ \E arg \in {a \in StreamlinesArgs : a.set \/ streamlines.set},
        thr \in Thresholds :
       IF equals_none_error(arg) # ""
       THEN /\ UNCHANGED <<streamlines, fiber_groups>>
            /\ seg' = Unset
            /\ pc' = "raised"
            /\ error' = equals_none_error(arg)
       ELSE \E sls \in {given_or_stored(arg)} :
            \E r \in {segment_sls(sls, bundle_dict.val, include_rois.val,
                                  exclude_rois.val, warped_prob_map.val,
                                  img.val, crosses, thr)} :
              /\ streamlines' = Some(sls)
              /\ fiber_groups' = IF r.fiber_groups_assigned
                                  THEN Some(r.fiber_groups)
                                  ELSE fiber_groups
              /\ seg' = Some([given |-> sls.rows,
                              prob_threshold |-> thr,
                              fiber_idx |-> r.fiber_idx,
                              streamlines_in_bundles |->
                                r.streamlines_in_bundles,
                              min_dist_coords |-> r.min_dist_coords])
              /\ error' = r.error
              /\ pc' = IF r.error = "" THEN "done" ELSE "raised"
  /\ UNCHANGED <<split, resample_np, img, mapping, bundle_dict, include_rois,
                 exclude_rois, warped_prob_map, crosses, clean, splitting,
                 weights, profile, cleaning, proximity, participant>>

NextCalls ==
  \/ Setup
  \/ PrepareImg
  \/ PrepareMap
  \/ CreateProb
  \/ SegmentCall
  \/ Resample
  \/ SplitSls
  \/ SegmentSls

SpecCalls == Init /\ [][NextCalls]_vars

\* The last call was segment_sls (by itself or from segment), and it read
\* the midline classification: a bundle has a midline rule and a streamline
\* has a probability above the threshold for it.
MidlineRuleEvaluated ==
  /\ pc \in {"done", "raised"}
  /\ seg.set
  /\ streamlines.val.kind # "ndarray"
  /\ \E b \in BundleIdx :
        /\ bundle_dict.val[b].cross_midline # "None"
        /\ \E s \in SlIdx : AboveThreshold(s, b)

\* C23: whatever the calls of resample, split_sls and segment_sls before,
\* when segment_sls evaluates the midline rule the stored classification
\* has one entry per streamline segmented, and entry i is the
\* classification of streamline i of the tractogram segmented.
C23_ClassificationOfTheSegmented ==
  MidlineRuleEvaluated /\ crosses.set =>
    /\ Len(crosses.val) = Len(streamlines.val.rows)
    /\ crosses.val = Tuple(split_streamlines(streamlines.val.rows, img.val))

\* ------------------------------------------------------------ ParticipantAFQ
\* The positional arguments of ParticipantAFQ.__init__ in the order of
\* their isinstance checks (lines 24-38).
StrArgs == <<"output_dir", "dwi_data_file", "bval_file", "bvec_file", "id">>

\* The keyword arguments followed: "mapping", an instance of one of these
\* classes, and two more keys, of which "data_imap" is also the name under
\* which the output of the data plan is passed on.
MappingClasses == {"SlrMap", "SynMap", "ItkMap"}

OtherKwargs == {"viz_backend", "data_imap"}

Kwargs ==
  UNION {{[k \in ks |-> "given"]}
           \cup {[k \in ks \cup {"mapping"} |->
                    IF k = "mapping" THEN c ELSE "given"] :
                   c \in MappingClasses} :
         ks \in SUBSET OtherKwargs}

\* The keys of input_data (lines 46-52).
input_data(kwargs) ==
  {"subses_dict", "dwi_img", "dwi_affine", "bval_file", "bvec_file"}
    \cup DOMAIN kwargs

\* "mapping" in kwargs and isinstance(kwargs["mapping"], SlrMap)
is_slr_map(kwargs) ==
  "mapping" \in DOMAIN kwargs /\ kwargs["mapping"] = "SlrMap"

\* The plan a get_..._plan function returns, by its name and by how it was
\* asked for.
get_plan(name, kwargs, use_sls) ==
  [name |-> name, kwargs |-> kwargs, use_sls |-> use_sls]

\* Lines 55-68 without the test of the mapping: always the order of the
\* else branch.
plans_mapping_first(kwargs) ==
  <<get_plan("data", kwargs, "default"),
    get_plan("mapping", kwargs, "default"),
    get_plan("tractography", kwargs, "default"),
    get_plan("segmentation", kwargs, "default"),
    get_plan("viz", kwargs, "default")>>

\* Lines 55-68: the dict plans, in the order of its keys (a dict keeps the
\* order of insertion).
plans(kwargs) ==
  IF is_slr_map(kwargs)
  THEN <<get_plan("data", kwargs, "default"),
         get_plan("tractography", kwargs, "default"),
         get_plan("mapping", kwargs, TRUE),
         get_plan("segmentation", kwargs, "default"),
         get_plan("viz", kwargs, "default")>>
  ELSE <<get_plan("data", kwargs, "default"),
         get_plan("mapping", kwargs, "default"),
         get_plan("tractography", kwargs, "default"),
         get_plan("segmentation", kwargs, "default"),
         get_plan("viz", kwargs, "default")>>

\* f"{name}_imap"
imap_key(name) ==
  CASE name = "data" -> "data_imap"
    [] name = "mapping" -> "mapping_imap"
    [] name = "tractography" -> "tractography_imap"
    [] name = "segmentation" -> "segmentation_imap"
    [] name = "viz" -> "viz_imap"

\* plan(**input_data, **previous_data): what a plan returns is a function
\* of the plan and of the keyword arguments of the call; a keyword given
\* twice is a TypeError.
call_plan(plan, input_keys, previous_data) ==
  IF input_keys \cap DOMAIN previous_data # {}
  THEN [error |-> "TypeError"]
  ELSE [error |-> "",
        imap |-> [plan |-> plan, input_data |-> input_keys,
                  previous_data |-> previous_data]]

\* ParticipantAFQ.__init__, lines 24-71: the checks of the arguments, of
\* which those in not_str are not strings, input_data, the plans and the
\* empty previous_data.
ParticipantInit ==
  /\ ~ participant.set
  /\ \E not_str \in SUBSET {StrArgs[i] : i \in 1..Len(StrArgs)},
        kwargs \in Kwargs :
       participant' =
         Some(IF not_str # {}
              THEN [at |-> "TypeError", not_str |-> not_str,
                    kwargs |-> kwargs,
                    message |->
                      StrArgs[SetMin({i \in 1..Len(StrArgs) :
                                        StrArgs[i] \in not_str})]]
              ELSE [at |-> "chain", not_str |-> not_str, kwargs |-> kwargs,
                    input_data |-> input_data(kwargs),
                    plans |-> plans(kwargs),
                    calls |-> << >>,
                    previous_data |-> [k \in {} |-> None],
                    last_name |-> Unset,
                    wf_dict |-> Unset])
  /\ UNCHANGED <<pc, split, resample_np, img, mapping, bundle_dict,
                 include_rois, exclude_rois, warped_prob_map, streamlines,
                 crosses, fiber_groups, seg, error, clean, splitting, weights,
                 profile, cleaning, proximity>>

\* One pass of the loop of lines 72-76, for the next plan.
ChainPlan ==
  /\ participant.set
  /\ participant.val.at = "chain"
  /\ Len(participant.val.calls) < Len(participant.val.plans)
  /\ LET p == participant.val
         plan == p.plans[Len(p.calls) + 1]
         r == call_plan(plan, p.input_data, p.previous_data)
     IN participant' =
          Some(IF r.error # ""
               THEN [p EXCEPT !.at = r.error]
               ELSE [p EXCEPT
                       !.calls = Append(@, r.imap),
                       !.last_name = Some(plan.name),
                       !.previous_data =
                          [k \in DOMAIN @ \cup {imap_key(plan.name)} |->
                             IF k = imap_key(plan.name) THEN r.imap
                             ELSE @[k]]])
  /\ UNCHANGED <<pc, split, resample_np, img, mapping, bundle_dict,
                 include_rois, exclude_rois, warped_prob_map, streamlines,
                 crosses, fiber_groups, seg, error, clean, splitting, weights,
                 profile, cleaning, proximity>>

\* Lines 78-79, after the loop: self.wf_dict.
SetWfDict ==
  /\ participant.set
  /\ participant.val.at = "chain"
  /\ Len(participant.val.calls) = Len(participant.val.plans)
  /\ participant' =
       Some([participant.val EXCEPT
               !.at = "constructed",
               !.wf_dict =
                  Some(participant.val.previous_data[
                         imap_key(participant.val.last_name.val)])])
  /\ UNCHANGED <<pc, split, resample_np, img, mapping, bundle_dict,
                 include_rois, exclude_rois, warped_prob_map, streamlines,
                 crosses, fiber_groups, seg, error, clean, splitting, weights,
                 profile, cleaning, proximity>>

NextParticipant ==
  \/ ParticipantInit
  \/ ChainPlan
  \/ SetWfDict

SpecParticipant == Init /\ [][NextParticipant]_vars

\* The names of the plans called so far, in the order of the calls.
Chained ==
  [i \in 1..Len(participant.val.calls) |->
     participant.val.calls[i].plan.name]

\* The position of a plan among the calls, 0 if it was not called.
CalledAt(name) ==
  IF \E i \in DOMAIN Chained : Chained[i] = name
  THEN CHOOSE i \in DOMAIN Chained : Chained[i] = name
  ELSE 0

\* The mapping given to the constructor is an SlrMap.
GivenSlrMap ==
  /\ "mapping" \in DOMAIN participant.val.kwargs
  /\ participant.val.kwargs["mapping"] = "SlrMap"

\* C24: the plans are chained in a fixed order, each one receiving the
\* outputs of all the plans before it and of no other: data is first,
\* segmentation and then viz are last, tractography is before mapping
\* exactly when the mapping given is an SlrMap; the workflow dictionary is
\* the output of the last plan, viz.
C24_PlansChainedInOrder ==
  participant.set /\ participant.val.at # "TypeError" =>
    LET p == participant.val
        n == Len(p.calls)
    IN /\ n <= 5
       /\ \A i, j \in 1..n : Chained[i] = Chained[j] => i = j
       /\ n >= 1 => Chained[1] = "data"
       /\ n >= 4 => Chained[4] = "segmentation"
       /\ n >= 5 => Chained[5] = "viz"
       /\ CalledAt("mapping") # 0 /\ CalledAt("tractography") # 0 =>
            (CalledAt("tractography") < CalledAt("mapping") <=> GivenSlrMap)
       /\ n >= 2 => {Chained[2]} \subseteq {"mapping", "tractography"}
       /\ \A i \in 1..n :
            /\ DOMAIN p.calls[i].previous_data
                 = {imap_key(Chained[j]) : j \in 1..(i - 1)}
            /\ \A j \in 1..(i - 1) :
                 p.calls[i].previous_data[imap_key(Chained[j])] = p.calls[j]
       /\ p.at = "constructed" =>
            /\ n = 5
            /\ p.wf_dict = Some(p.calls[5])
       /\ p.wf_dict.set => p.at = "constructed"

\* A participant constructed with an SlrMap: tractography before mapping.
C24_Witness ==
  /\ participant.set
  /\ participant.val.at = "constructed"
  /\ GivenSlrMap
  /\ Chained = <<"data", "tractography", "mapping", "segmentation", "viz">>
  /\ participant.val.wf_dict.val.plan.name = "viz"
====
